---- MODULE Spec2Model ----
(***************************************************************************)
(* OTLP payload validation engine of otel-validator.                       *)
(*                                                                         *)
(* A JSON document is a tagged record (the JavaScript value the engine     *)
(* receives after JSON.parse); strings are sequences of one-character      *)
(* strings so that patterns, BigInt parsing and upper-casing are computed  *)
(* character by character.  Error paths, keywords and schema paths are     *)
(* TLA+ strings; error messages are sequences of the parts of the          *)
(* template literal that builds them.                                      *)
(***************************************************************************)
EXTENDS Integers, Sequences, FiniteSets, TLC

(***************************************************************************)
(* JavaScript values                                                       *)
(***************************************************************************)
Undef == [t |-> "undef"]
Null == [t |-> "null"]
Bool(b) == [t |-> "bool", b |-> b]
\* a number n, or n + 0.5 when frac
Num(n) == [t |-> "num", n |-> n, frac |-> FALSE]
NumHalf(n) == [t |-> "num", n |-> n, frac |-> TRUE]
Str(s) == [t |-> "str", s |-> s]
Arr(a) == [t |-> "arr", a |-> a]
Obj(o) == [t |-> "obj", o |-> o]
NoFields == [k \in {} |-> Null]
EmptyObj == Obj(NoFields)

IsArr(v) == v.t = "arr"
IsStr(v) == v.t = "str"

\* v.k : a property read.  Reading a property of null or undefined is a
\* TypeError, which callers test with Nullish before they read.
Nullish(v) == v.t \in {"null", "undef"}
Get(v, k) == IF v.t = "obj" /\ k \in DOMAIN v.o THEN v.o[k] ELSE Undef

\* ToBoolean
Truthy(v) ==
  CASE v.t = "undef" -> FALSE
    [] v.t = "null" -> FALSE
    [] v.t = "bool" -> v.b
    [] v.t = "num" -> (v.n # 0 \/ v.frac)
    [] v.t = "str" -> Len(v.s) > 0
    [] OTHER -> TRUE

\* an object holding only the fields of f that are not undefined
Fields(f) == Obj([k \in {x \in DOMAIN f : f[x] # Undef} |-> f[k]])

(***************************************************************************)
(* Characters                                                              *)
(***************************************************************************)
DigitChars == <<"0", "1", "2", "3", "4", "5", "6", "7", "8", "9">>
LowerChars == <<"a", "b", "c", "d", "e", "f", "g", "h", "i", "j", "k", "l", "m",
                "n", "o", "p", "q", "r", "s", "t", "u", "v", "w", "x", "y", "z">>
UpperChars == <<"A", "B", "C", "D", "E", "F", "G", "H", "I", "J", "K", "L", "M",
                "N", "O", "P", "Q", "R", "S", "T", "U", "V", "W", "X", "Y", "Z">>
Range(s) == {s[i] : i \in DOMAIN s}
IndexOf(c, s) == CHOOSE i \in DOMAIN s : s[i] = c
\* value of a hexadecimal digit, -1 when c is none
HexVal(c) ==
  CASE c \in Range(DigitChars) -> IndexOf(c, DigitChars) - 1
    [] c \in Range(SubSeq(LowerChars, 1, 6)) -> IndexOf(c, LowerChars) + 9
    [] c \in Range(SubSeq(UpperChars, 1, 6)) -> IndexOf(c, UpperChars) + 9
    [] OTHER -> -1
WhiteSpace == {" ", "\t", "\n"}
UpperChar(c) == IF c \in Range(LowerChars) THEN UpperChars[IndexOf(c, LowerChars)] ELSE c
\* String.prototype.toUpperCase
ToUpperCase(s) == [i \in DOMAIN s |-> UpperChar(s[i])]
\* String.prototype.startsWith
StartsWith(s, p) == Len(p) <= Len(s) /\ SubSeq(s, 1, Len(p)) = p
\* a string literal of the source, one character per element
Rep(c, n) == [i \in 1..n |-> c]
\* the concatenation of the sequences ss[1], ..., ss[Len(ss)]: element j of
\* ss[i] lands behind the elements of the sequences before ss[i]
Flatten(ss) ==
  LET t == ss \o <<>>
      idx == UNION {{i} \X DOMAIN t[i] : i \in DOMAIN t}
      Offset(i) == Cardinality({q \in idx : q[1] < i})
  IN [k \in 1..Cardinality(idx) |->
        LET p == CHOOSE q \in idx : Offset(q[1]) + q[2] = k IN t[p[1]][p[2]]] \o <<>>

(***************************************************************************)
(* BigInt: arbitrary-precision integers, [neg, mag] with mag the decimal   *)
(* digits, most significant first, without leading zeros (zero is <<0>>).  *)
(***************************************************************************)
\* a digit sequence without its leading zeros
StripZeros(d) ==
  LET nz == {i \in DOMAIN d : d[i] # 0}
  IN IF nz = {} THEN <<0>>
     ELSE SubSeq(d, CHOOSE i \in nz : \A j \in nz : i <= j, Len(d))

\* the decimal digits of a natural number below 10^10
NatDigits(n) == StripZeros([i \in 1..10 |-> (n \div 10^(10 - i)) % 10])

\* sum of two magnitudes: digit i from the right is a_i + b_i plus the carry,
\* and a carry enters position i when a position to its right overflows and
\* every position between them holds a 9
MagAdd(a, b) ==
  LET n == (IF Len(a) > Len(b) THEN Len(a) ELSE Len(b)) + 1
      DigitOf(d, i) == IF i <= Len(d) THEN d[Len(d) + 1 - i] ELSE 0
      Pair(i) == DigitOf(a, i) + DigitOf(b, i)
      Carry(i) == \E j \in 1..(i - 1) : Pair(j) >= 10 /\ \A m \in (j + 1)..(i - 1) : Pair(m) = 9
  IN StripZeros([i \in 1..n |->
       (Pair(n + 1 - i) + (IF Carry(n + 1 - i) THEN 1 ELSE 0)) % 10])

\* product of two magnitudes: a power of ten shifts the digits; otherwise the coefficient of 10^(m-1) is the sum of the
\* digit products a_i * b_j with i + j = m + 1, counted as the size of a set,
\* and the decimal places of the coefficients are added up as four numbers
MagMul(a, b) ==
  LET n == Len(a) + Len(b)
      PowerOfTen(d) == d[1] = 1 /\ \A i \in 2..Len(d) : d[i] = 0
      DigitOf(d, i) == d[Len(d) + 1 - i]
      Coef(m) ==
        Cardinality(UNION {{i} \X (1..DigitOf(a, i)) \X (1..DigitOf(b, m + 1 - i)) :
                             i \in {j \in DOMAIN a : m + 1 - j \in DOMAIN b}})
      Place(r) ==
        [i \in 1..(n + 3) |->
           LET m == n + 4 - i - r
           IN IF m \in 1..(n - 1) THEN (Coef(m) \div 10^r) % 10 ELSE 0]
  IN IF PowerOfTen(b) THEN StripZeros(a \o Tail(b))
     ELSE MagAdd(MagAdd(Place(0), Place(1)), MagAdd(Place(2), Place(3)))
\* d * k + c for small k and c
MulAdd(d, k, c) == MagAdd(MagMul(d, NatDigits(k)), NatDigits(c))

MagLess(a, b) ==
  \/ Len(a) < Len(b)
  \/ /\ Len(a) = Len(b)
     /\ \E i \in DOMAIN a : a[i] < b[i] /\ \A j \in 1..(i - 1) : a[j] = b[j]

Big(neg, mag) == [neg |-> neg /\ mag # <<0>>, mag |-> mag]
BigOfNat(n) == Big(FALSE, StripZeros(NatDigits(n)))
\* a < b on BigInt
BigLess(a, b) ==
  CASE a.neg /\ ~b.neg -> TRUE
    [] ~a.neg /\ b.neg -> FALSE
    [] ~a.neg /\ ~b.neg -> MagLess(a.mag, b.mag)
    [] OTHER -> MagLess(b.mag, a.mag)
\* a + b and a * b for a, b >= 0
BigAdd(a, b) == Big(FALSE, MagAdd(a.mag, b.mag))
BigMul(a, b) == Big(FALSE, MagMul(a.mag, b.mag))

(***************************************************************************)
(* BigInt(value): the conversion the semantic checkers apply to timestamps.*)
(* The result is [ok, v]; ok = FALSE stands for the TypeError, RangeError  *)
(* or SyntaxError the conversion throws.                                   *)
(***************************************************************************)
Chars(str) ==
  CASE str = "true" -> <<"t", "r", "u", "e">>
    [] str = "false" -> <<"f", "a", "l", "s", "e">>
    [] str = "[object Object]" ->
         <<"[", "o", "b", "j", "e", "c", "t", " ", "O", "b", "j", "e", "c", "t", "]">>
    [] OTHER -> <<>>
DigitsToChars(d) == [i \in DOMAIN d |-> DigitChars[d[i] + 1]]
\* Number::toString of n or n + 0.5
NumToChars(v) ==
  LET a == IF v.n < 0 THEN -v.n ELSE v.n
      \* -1.5 is held as n = -2, frac: its integer part is n + 1
      ip == IF v.n < 0 /\ v.frac THEN a - 1 ELSE a
      neg == v.n < 0
  IN (IF neg THEN <<"-">> ELSE <<>>) \o DigitsToChars(StripZeros(NatDigits(ip)))
       \o (IF v.frac THEN <<".", "5">> ELSE <<>>)

\* ToString, as ToPrimitive applies it to the argument of BigInt
RECURSIVE JsToString(_)
RECURSIVE JoinElems(_, _)
JoinElems(a, i) ==
  IF i > Len(a) THEN <<>>
  ELSE (IF i > 1 THEN <<",">> ELSE <<>>)
         \o (IF Nullish(a[i]) THEN <<>> ELSE JsToString(a[i]))
         \o JoinElems(a, i + 1)
JsToString(v) ==
  CASE v.t = "str" -> v.s
    [] v.t = "num" -> NumToChars(v)
    [] v.t = "bool" -> IF v.b THEN Chars("true") ELSE Chars("false")
    [] v.t = "arr" -> JoinElems(v.a, 1)
    [] v.t = "obj" -> Chars("[object Object]")
    [] v.t = "null" -> <<"n", "u", "l", "l">>
    [] OTHER -> <<"u", "n", "d", "e", "f", "i", "n", "e", "d">>

\* a string without its leading and trailing white space
Trim(s) ==
  LET ink == {i \in DOMAIN s : s[i] \notin WhiteSpace}
  IN IF ink = {} THEN <<>>
     ELSE SubSeq(s, CHOOSE i \in ink : \A j \in ink : i <= j,
                 CHOOSE i \in ink : \A j \in ink : i >= j)

\* the magnitude of a digit string in the given radix
RECURSIVE RadixMag(_, _)
RadixMag(s, radix) ==
  IF radix = 10 THEN StripZeros([i \in DOMAIN s |-> HexVal(s[i])])
  ELSE IF s = <<>> THEN <<0>>
  ELSE MulAdd(RadixMag(SubSeq(s, 1, Len(s) - 1), radix), radix, HexVal(s[Len(s)]))
AllDigits(s, radix) == s # <<>> /\ \A i \in DOMAIN s : HexVal(s[i]) >= 0 /\ HexVal(s[i]) < radix

BigFail == [ok |-> FALSE, v |-> BigOfNat(0)]
BigOk(b) == [ok |-> TRUE, v |-> b]
\* StringToBigInt: StrWhiteSpace? (SignedInteger | 0x.. | 0o.. | 0b..)? StrWhiteSpace?
StringToBigInt(str) ==
  LET s == Trim(str)
      prefixed == Len(s) >= 2 /\ s[1] = "0" /\ s[2] \in {"x", "X", "o", "O", "b", "B"}
      radix == IF s[2] \in {"x", "X"} THEN 16 ELSE IF s[2] \in {"o", "O"} THEN 8 ELSE 2
      signed == s # <<>> /\ s[1] \in {"+", "-"}
      body == IF signed THEN Tail(s) ELSE s
  IN IF s = <<>> THEN BigOk(BigOfNat(0))
     ELSE IF prefixed
       THEN IF AllDigits(SubSeq(s, 3, Len(s)), radix)
              THEN BigOk(Big(FALSE, RadixMag(SubSeq(s, 3, Len(s)), radix)))
              ELSE BigFail
     ELSE IF AllDigits(body, 10)
       THEN BigOk(Big(signed /\ s[1] = "-", RadixMag(body, 10)))
       ELSE BigFail

\* BigInt(value)
BigInt(v) ==
  CASE v.t = "num" ->
         IF v.frac THEN BigFail
         ELSE BigOk(Big(v.n < 0, StripZeros(NatDigits(IF v.n < 0 THEN -v.n ELSE v.n))))
    [] v.t = "bool" -> BigOk(BigOfNat(IF v.b THEN 1 ELSE 0))
    [] v.t = "str" -> StringToBigInt(v.s)
    [] v.t \in {"arr", "obj"} -> StringToBigInt(JsToString(v))
    [] OTHER -> BigFail

(***************************************************************************)
(* Validation errors and warnings                                          *)
(***************************************************************************)
Error(path, message, keyword, schemaPath) ==
  [path |-> path, message |-> message, keyword |-> keyword, schemaPath |-> schemaPath]
Warning(path, message, suggestion) ==
  [path |-> path, message |-> message, suggestion |-> suggestion]

(***************************************************************************)
(* JSON Schema definitions.  A schema is a record holding the keywords it  *)
(* uses; properties is a sequence because Ajv visits them in the order of  *)
(* the schema.                                                             *)
(***************************************************************************)
Prop(k, sch) == [k |-> k, s |-> sch]
TypeS(ty) == [type |-> <<ty>>]
RefS(name) == [ref |-> name]
ArrayOf(sch) == [type |-> <<"array">>, items |-> sch]
ObjectS(props) == [type |-> <<"object">>, properties |-> props]
\* a faulty 64-bit integer schema: only the string form is accepted
Int64S_StringOnly == [type |-> <<"string">>]
\* type: ['string', 'integer'], the 64-bit integer fields
Int64S == [type |-> <<"string", "integer">>]
\* type: 'integer', minimum: 0
CountS == [type |-> <<"integer">>, minimum |-> 0]
\* type: 'integer', enum: [0 .. hi]
EnumS_TypeOnly(hi) == [type |-> <<"integer">>]
EnumS(hi) == [type |-> <<"integer">>, enum |-> [i \in 1..(hi + 1) |-> i - 1]]
\* type: 'string', pattern: '^[a-fA-F0-9]{n}$'
HexS(n) ==
  [type |-> <<"string">>,
   pattern |-> [src |-> "^[a-fA-F0-9]{" \o ToString(n) \o "}$", len |-> n]]
KeyValues == ArrayOf(RefS("keyValue"))

anyValueDef ==
  ObjectS(<<Prop("stringValue", TypeS("string")),
            Prop("boolValue", TypeS("boolean")),
            Prop("intValue", Int64S),
            Prop("doubleValue", TypeS("number")),
            Prop("arrayValue", ObjectS(<<Prop("values", ArrayOf(RefS("anyValue")))>>)),
            Prop("kvlistValue", ObjectS(<<Prop("values", KeyValues)>>)),
            Prop("bytesValue", TypeS("string"))>>)
keyValueDef ==
  [type |-> <<"object">>, required |-> <<"key">>,
   properties |-> <<Prop("key", TypeS("string")), Prop("value", RefS("anyValue"))>>]
resourceDef ==
  ObjectS(<<Prop("attributes", KeyValues), Prop("droppedAttributesCount", CountS)>>)
instrumentationScopeDef ==
  ObjectS(<<Prop("name", TypeS("string")), Prop("version", TypeS("string")),
            Prop("attributes", KeyValues), Prop("droppedAttributesCount", CountS)>>)

statusDef == ObjectS(<<Prop("message", TypeS("string")), Prop("code", EnumS(2))>>)
eventDef ==
  ObjectS(<<Prop("timeUnixNano", Int64S), Prop("name", TypeS("string")),
            Prop("attributes", KeyValues), Prop("droppedAttributesCount", CountS)>>)
linkDef ==
  ObjectS(<<Prop("traceId", HexS(32)), Prop("spanId", HexS(16)),
            Prop("traceState", TypeS("string")), Prop("attributes", KeyValues),
            Prop("droppedAttributesCount", CountS), Prop("flags", TypeS("integer"))>>)
spanDef ==
  ObjectS(<<Prop("traceId", HexS(32)), Prop("spanId", HexS(16)),
            Prop("traceState", TypeS("string")), Prop("parentSpanId", HexS(16)),
            Prop("name", TypeS("string")), Prop("kind", EnumS(5)),
            Prop("startTimeUnixNano", Int64S), Prop("endTimeUnixNano", Int64S),
            Prop("attributes", KeyValues), Prop("droppedAttributesCount", CountS),
            Prop("events", ArrayOf(RefS("event"))), Prop("droppedEventsCount", CountS),
            Prop("links", ArrayOf(RefS("link"))), Prop("droppedLinksCount", CountS),
            Prop("status", RefS("status")), Prop("flags", TypeS("integer"))>>)
scopeSpansDef ==
  ObjectS(<<Prop("scope", RefS("instrumentationScope")),
            Prop("spans", ArrayOf(RefS("span"))), Prop("schemaUrl", TypeS("string"))>>)
resourceSpansDef ==
  ObjectS(<<Prop("resource", RefS("resource")),
            Prop("scopeSpans", ArrayOf(RefS("scopeSpans"))),
            Prop("schemaUrl", TypeS("string"))>>)
tracesSchema == ObjectS(<<Prop("resourceSpans", ArrayOf(RefS("resourceSpans")))>>)

logRecordDef ==
  ObjectS(<<Prop("timeUnixNano", Int64S), Prop("observedTimeUnixNano", Int64S),
            Prop("severityNumber", [type |-> <<"integer">>, minimum |-> 0, maximum |-> 24]),
            Prop("severityText", TypeS("string")), Prop("body", RefS("anyValue")),
            Prop("attributes", KeyValues), Prop("droppedAttributesCount", CountS),
            Prop("flags", TypeS("integer")),
            Prop("traceId", HexS(32)), Prop("spanId", HexS(16))>>)
scopeLogsDef ==
  ObjectS(<<Prop("scope", RefS("instrumentationScope")),
            Prop("logRecords", ArrayOf(RefS("logRecord"))), Prop("schemaUrl", TypeS("string"))>>)
resourceLogsDef ==
  ObjectS(<<Prop("resource", RefS("resource")),
            Prop("scopeLogs", ArrayOf(RefS("scopeLogs"))), Prop("schemaUrl", TypeS("string"))>>)
logsSchema == ObjectS(<<Prop("resourceLogs", ArrayOf(RefS("resourceLogs")))>>)

exemplarDef ==
  ObjectS(<<Prop("filteredAttributes", KeyValues), Prop("timeUnixNano", Int64S),
            Prop("asDouble", TypeS("number")), Prop("asInt", Int64S),
            Prop("spanId", HexS(16)), Prop("traceId", HexS(32))>>)
Exemplars == ArrayOf(RefS("exemplar"))
numberDataPointDef ==
  ObjectS(<<Prop("attributes", KeyValues), Prop("startTimeUnixNano", Int64S),
            Prop("timeUnixNano", Int64S), Prop("asDouble", TypeS("number")),
            Prop("asInt", Int64S), Prop("exemplars", Exemplars),
            Prop("flags", TypeS("integer"))>>)
histogramDataPointDef ==
  ObjectS(<<Prop("attributes", KeyValues), Prop("startTimeUnixNano", Int64S),
            Prop("timeUnixNano", Int64S), Prop("count", Int64S), Prop("sum", TypeS("number")),
            Prop("bucketCounts", ArrayOf(Int64S)),
            Prop("explicitBounds", ArrayOf(TypeS("number"))),
            Prop("exemplars", Exemplars), Prop("flags", TypeS("integer")),
            Prop("min", TypeS("number")), Prop("max", TypeS("number"))>>)
Buckets ==
  ObjectS(<<Prop("offset", TypeS("integer")), Prop("bucketCounts", ArrayOf(Int64S))>>)
exponentialHistogramDataPointDef ==
  ObjectS(<<Prop("attributes", KeyValues), Prop("startTimeUnixNano", Int64S),
            Prop("timeUnixNano", Int64S), Prop("count", Int64S), Prop("sum", TypeS("number")),
            Prop("scale", TypeS("integer")), Prop("zeroCount", Int64S),
            Prop("positive", Buckets), Prop("negative", Buckets),
            Prop("flags", TypeS("integer")), Prop("exemplars", Exemplars),
            Prop("min", TypeS("number")), Prop("max", TypeS("number")),
            Prop("zeroThreshold", TypeS("number"))>>)
summaryDataPointDef ==
  ObjectS(<<Prop("attributes", KeyValues), Prop("startTimeUnixNano", Int64S),
            Prop("timeUnixNano", Int64S), Prop("count", Int64S), Prop("sum", TypeS("number")),
            Prop("quantileValues",
                 ArrayOf(ObjectS(<<Prop("quantile", TypeS("number")),
                                   Prop("value", TypeS("number"))>>))),
            Prop("flags", TypeS("integer"))>>)
gaugeDef == ObjectS(<<Prop("dataPoints", ArrayOf(RefS("numberDataPoint")))>>)
sumDef ==
  ObjectS(<<Prop("dataPoints", ArrayOf(RefS("numberDataPoint"))),
            Prop("aggregationTemporality", EnumS(2)), Prop("isMonotonic", TypeS("boolean"))>>)
histogramDef ==
  ObjectS(<<Prop("dataPoints", ArrayOf(RefS("histogramDataPoint"))),
            Prop("aggregationTemporality", EnumS(2))>>)
exponentialHistogramDef ==
  ObjectS(<<Prop("dataPoints", ArrayOf(RefS("exponentialHistogramDataPoint"))),
            Prop("aggregationTemporality", EnumS(2))>>)
summaryDef == ObjectS(<<Prop("dataPoints", ArrayOf(RefS("summaryDataPoint")))>>)
metricDef ==
  ObjectS(<<Prop("name", TypeS("string")), Prop("description", TypeS("string")),
            Prop("unit", TypeS("string")), Prop("metadata", KeyValues),
            Prop("gauge", RefS("gauge")), Prop("sum", RefS("sum")),
            Prop("histogram", RefS("histogram")),
            Prop("exponentialHistogram", RefS("exponentialHistogram")),
            Prop("summary", RefS("summary"))>>)
scopeMetricsDef ==
  ObjectS(<<Prop("scope", RefS("instrumentationScope")),
            Prop("metrics", ArrayOf(RefS("metric"))), Prop("schemaUrl", TypeS("string"))>>)
resourceMetricsDef ==
  ObjectS(<<Prop("resource", RefS("resource")),
            Prop("scopeMetrics", ArrayOf(RefS("scopeMetrics"))),
            Prop("schemaUrl", TypeS("string"))>>)
metricsSchema == ObjectS(<<Prop("resourceMetrics", ArrayOf(RefS("resourceMetrics")))>>)

\* the $defs of the three schemas
Defs(name) ==
  CASE name = "anyValue" -> anyValueDef
    [] name = "keyValue" -> keyValueDef
    [] name = "resource" -> resourceDef
    [] name = "instrumentationScope" -> instrumentationScopeDef
    [] name = "status" -> statusDef
    [] name = "event" -> eventDef
    [] name = "link" -> linkDef
    [] name = "span" -> spanDef
    [] name = "scopeSpans" -> scopeSpansDef
    [] name = "resourceSpans" -> resourceSpansDef
    [] name = "logRecord" -> logRecordDef
    [] name = "scopeLogs" -> scopeLogsDef
    [] name = "resourceLogs" -> resourceLogsDef
    [] name = "exemplar" -> exemplarDef
    [] name = "numberDataPoint" -> numberDataPointDef
    [] name = "histogramDataPoint" -> histogramDataPointDef
    [] name = "exponentialHistogramDataPoint" -> exponentialHistogramDataPointDef
    [] name = "summaryDataPoint" -> summaryDataPointDef
    [] name = "gauge" -> gaugeDef
    [] name = "sum" -> sumDef
    [] name = "histogram" -> histogramDef
    [] name = "exponentialHistogram" -> exponentialHistogramDef
    [] name = "summary" -> summaryDef
    [] name = "metric" -> metricDef
    [] name = "scopeMetrics" -> scopeMetricsDef
    [] name = "resourceMetrics" -> resourceMetricsDef

(***************************************************************************)
(* The compiled validators: Ajv with allErrors, so every violation is      *)
(* collected.  Errors come in the order of Ajv's generated code: the type  *)
(* check, then the keywords without a type (enum), then the number,        *)
(* string, array and object keywords, each group applied only to data of   *)
(* its type.                                                               *)
(***************************************************************************)
Has(sch, kw) == kw \in DOMAIN sch
\* the data type test of the type keyword
IsType(d, ty) ==
  CASE ty = "string" -> d.t = "str"
    [] ty = "number" -> d.t = "num"
    [] ty = "integer" -> d.t = "num" /\ ~d.frac
    [] ty = "boolean" -> d.t = "bool"
    [] ty = "array" -> d.t = "arr"
    [] ty = "object" -> d.t = "obj"
    [] OTHER -> d.t = "null"
RECURSIVE JoinNames(_, _)
JoinNames(names, sep) ==
  IF names = <<>> THEN <<>>
  ELSE IF Len(names) = 1 THEN names
  ELSE <<names[1], sep>> \o JoinNames(Tail(names), sep)
GroupOf(kw) ==
  CASE kw \in {"minimum", "maximum"} -> "number"
    [] kw = "pattern" -> "string"
    [] kw = "items" -> "array"
    [] kw \in {"required", "properties"} -> "object"
    [] OTHER -> "none"
\* a lone type whose own keyword group is used by the schema is tested
\* with that group; every other type is tested first
TypeDeferred(sch) ==
  /\ Has(sch, "type") /\ Len(sch.type) = 1
  /\ \E kw \in DOMAIN sch : GroupOf(kw) = sch.type[1]
TypeErrors(sch, d, ip, sp) ==
  IF Has(sch, "type") /\ ~\E i \in DOMAIN sch.type : IsType(d, sch.type[i])
    THEN <<Error(ip, <<"must be ">> \o JoinNames(sch.type, ","), "type", sp \o "/type")>>
    ELSE <<>>
EnumErrors(sch, d, ip, sp) ==
  IF Has(sch, "enum") /\ ~(d.t = "num" /\ ~d.frac /\ d.n \in Range(sch.enum))
    THEN <<Error(ip, <<"must be equal to one of the allowed values">>, "enum", sp \o "/enum")>>
    ELSE <<>>
NumberErrors(sch, d, ip, sp) ==
  IF d.t # "num" THEN <<>>
  ELSE (IF Has(sch, "maximum") /\ (d.n > sch.maximum \/ (d.n = sch.maximum /\ d.frac))
          THEN <<Error(ip, <<"must be <= ", ToString(sch.maximum)>>, "maximum", sp \o "/maximum")>>
          ELSE <<>>)
       \o (IF Has(sch, "minimum") /\ d.n < sch.minimum
          THEN <<Error(ip, <<"must be >= ", ToString(sch.minimum)>>, "minimum", sp \o "/minimum")>>
          ELSE <<>>)
\* new RegExp('^[a-fA-F0-9]{n}$').test(s)
MatchesHex_LowerCase(s, n) ==
  Len(s) = n /\ \A i \in DOMAIN s : HexVal(s[i]) >= 0 /\ s[i] \notin Range(UpperChars)
MatchesHex(s, n) == Len(s) = n /\ \A i \in DOMAIN s : HexVal(s[i]) >= 0
StringErrors(sch, d, ip, sp) ==
  IF Has(sch, "pattern") /\ d.t = "str" /\ ~MatchesHex(d.s, sch.pattern.len)
    THEN <<Error(ip, <<"must match pattern \"", sch.pattern.src, "\"">>, "pattern",
                 sp \o "/pattern")>>
    ELSE <<>>
RequiredErrors(req, d, ip, sp) ==
  Flatten([i \in DOMAIN req |->
    IF Get(d, req[i]) = Undef
      THEN <<Error(ip, <<"must have required property '", req[i], "'">>, "required",
                   sp \o "/required")>>
      ELSE <<>>])

\* the generated code visits a schema's keywords in a fixed order; an error
\* carries the positions of the keywords and elements on the way to it
Keyed(key, slot, errs) == {<<key \o <<slot, i>>, errs[i]>> : i \in DOMAIN errs}
KeyLess(a, b) ==
  \/ \E i \in (DOMAIN a) \cap (DOMAIN b) : a[i] < b[i] /\ \A j \in 1..(i - 1) : a[j] = b[j]
  \/ Len(a) < Len(b) /\ \A j \in DOMAIN a : a[j] = b[j]
\* the errors of a set of keyed errors, in the order of their keys
InOrder(S) ==
  [k \in 1..Cardinality(S) |->
     (CHOOSE e \in S : Cardinality({f \in S : KeyLess(f[1], e[1])}) = k - 1)[2]] \o <<>>

RECURSIVE KeyedErrors(_, _, _, _, _)
ItemErrors(sch, d, ip, sp, key) ==
  UNION {KeyedErrors(sch, d.a[i], ip \o "/" \o ToString(i - 1), sp, key \o <<2, i>>) :
           i \in DOMAIN d.a}
PropertyErrors(props, d, ip, sp, key) ==
  UNION {IF Get(d, props[i].k) # Undef
           THEN KeyedErrors(props[i].s, Get(d, props[i].k), ip \o "/" \o props[i].k,
                            sp \o "/" \o props[i].k, key \o <<5, i>>)
           ELSE {} : i \in DOMAIN props}
\* the errors of the keywords of schema sch itself
KeywordErrors(sch, d, ip, sp, key) ==
  LET deferred == TypeDeferred(sch)
      Deferred(ty) == IF deferred /\ sch.type[1] = ty THEN TypeErrors(sch, d, ip, sp) ELSE <<>>
  IN Keyed(key, 1, (IF deferred THEN <<>> ELSE TypeErrors(sch, d, ip, sp))
                   \o EnumErrors(sch, d, ip, sp)
                   \o NumberErrors(sch, d, ip, sp) \o Deferred("number")
                   \o StringErrors(sch, d, ip, sp) \o Deferred("string"))
     \cup Keyed(key, 3, Deferred("array"))
     \cup Keyed(key, 4, IF Has(sch, "required") /\ d.t = "obj"
                          THEN RequiredErrors(sch.required, d, ip, sp) ELSE <<>>)
     \cup Keyed(key, 6, Deferred("object"))
\* the errors of data d, at instance path ip, against schema sch0 at schema
\* path sp0, a $ref standing for the definition it names
KeyedErrors(sch0, d, ip, sp0, key) ==
  LET ref == Has(sch0, "ref")
      sch == IF ref THEN Defs(sch0.ref) ELSE sch0
      sp == IF ref THEN "#/$defs/" \o sch0.ref ELSE sp0
  IN IF Has(sch, "items") /\ d.t = "arr"
       THEN KeywordErrors(sch, d, ip, sp, key) \cup ItemErrors(sch.items, d, ip, sp \o "/items", key)
     ELSE IF Has(sch, "properties") /\ d.t = "obj"
       THEN KeywordErrors(sch, d, ip, sp, key)
            \cup PropertyErrors(sch.properties, d, ip, sp \o "/properties", key)
     ELSE KeywordErrors(sch, d, ip, sp, key)
SchemaErrors(sch, d, ip, sp) == InOrder(KeyedErrors(sch, d, ip, sp, <<>>))

\* validators[payloadType](payload); validator.errors
validators(payloadType, payload) ==
  SchemaErrors(CASE payloadType = "traces" -> tracesSchema
                 [] payloadType = "logs" -> logsSchema
                 [] OTHER -> metricsSchema,
               payload, "", "#")

(***************************************************************************)
(* The Zod schemas of the same documents.  A schema is a record naming its *)
(* kind and its checks; safeParse collects every issue with the path of    *)
(* the value it is about, written here as the instance path Ajv would      *)
(* give.  passthrough() keeps unknown keys and raises no issue for them.   *)
(***************************************************************************)
ZString == [z |-> "string"]
ZNumber == [z |-> "number"]
ZBoolean == [z |-> "boolean"]
\* z.string().regex(/^[a-fA-F0-9]{n}$/)
ZHex(n) == [z |-> "string", regex |-> n]
\* z.number().int(), with .min(lo) and .max(hi) where lo, hi are not -1
ZInt(lo, hi) == [z |-> "number", int |-> TRUE, min |-> lo, max |-> hi]
ZUnion(options) == [z |-> "union", options |-> options]
ZArray(element) == [z |-> "array", element |-> element]
ZObject(shape) == [z |-> "object", shape |-> shape]
ZLazy(name) == [z |-> "lazy", name |-> name]
Optional(sch) == [z |-> "optional", inner |-> sch]
\* z.number().int().min(0).optional(), the dropped...Count fields
ZCount == Optional(ZInt(0, -1))

int64Schema == ZUnion(<<ZString, ZNumber>>)
timestampSchema == ZString
traceIdSchema == ZHex(32)
spanIdSchema == ZHex(16)
anyValueSchema ==
  ZObject(<<Prop("stringValue", Optional(ZString)),
            Prop("boolValue", Optional(ZBoolean)),
            Prop("intValue", Optional(int64Schema)),
            Prop("doubleValue", Optional(ZNumber)),
            Prop("arrayValue",
                 Optional(ZObject(<<Prop("values", Optional(ZArray(ZLazy("anyValue"))))>>))),
            Prop("kvlistValue",
                 Optional(ZObject(<<Prop("values", Optional(ZArray(ZLazy("keyValue"))))>>))),
            Prop("bytesValue", Optional(ZString))>>)
keyValueSchema ==
  ZObject(<<Prop("key", ZString), Prop("value", Optional(anyValueSchema))>>)
Lazy(name) == IF name = "anyValue" THEN anyValueSchema ELSE keyValueSchema
ZKeyValues == Optional(ZArray(keyValueSchema))
resourceSchema ==
  ZObject(<<Prop("attributes", ZKeyValues), Prop("droppedAttributesCount", ZCount)>>)
instrumentationScopeSchema ==
  ZObject(<<Prop("name", Optional(ZString)), Prop("version", Optional(ZString)),
            Prop("attributes", ZKeyValues), Prop("droppedAttributesCount", ZCount)>>)

statusSchema ==
  ZObject(<<Prop("message", Optional(ZString)), Prop("code", Optional(ZInt(0, 2)))>>)
eventSchema ==
  ZObject(<<Prop("timeUnixNano", Optional(timestampSchema)), Prop("name", Optional(ZString)),
            Prop("attributes", ZKeyValues), Prop("droppedAttributesCount", ZCount)>>)
linkSchema ==
  ZObject(<<Prop("traceId", Optional(traceIdSchema)), Prop("spanId", Optional(spanIdSchema)),
            Prop("traceState", Optional(ZString)), Prop("attributes", ZKeyValues),
            Prop("droppedAttributesCount", ZCount), Prop("flags", Optional(ZInt(-1, -1)))>>)
spanSchema ==
  ZObject(<<Prop("traceId", Optional(traceIdSchema)), Prop("spanId", Optional(spanIdSchema)),
            Prop("traceState", Optional(ZString)), Prop("parentSpanId", Optional(spanIdSchema)),
            Prop("name", Optional(ZString)), Prop("kind", Optional(ZInt(0, 5))),
            Prop("startTimeUnixNano", Optional(timestampSchema)),
            Prop("endTimeUnixNano", Optional(timestampSchema)),
            Prop("attributes", ZKeyValues), Prop("droppedAttributesCount", ZCount),
            Prop("events", Optional(ZArray(eventSchema))), Prop("droppedEventsCount", ZCount),
            Prop("links", Optional(ZArray(linkSchema))), Prop("droppedLinksCount", ZCount),
            Prop("status", Optional(statusSchema)), Prop("flags", Optional(ZInt(-1, -1)))>>)
scopeSpansSchema ==
  ZObject(<<Prop("scope", Optional(instrumentationScopeSchema)),
            Prop("spans", Optional(ZArray(spanSchema))), Prop("schemaUrl", Optional(ZString))>>)
resourceSpansSchema ==
  ZObject(<<Prop("resource", Optional(resourceSchema)),
            Prop("scopeSpans", Optional(ZArray(scopeSpansSchema))),
            Prop("schemaUrl", Optional(ZString))>>)
zodTracesSchema == ZObject(<<Prop("resourceSpans", Optional(ZArray(resourceSpansSchema)))>>)

logRecordSchema ==
  ZObject(<<Prop("timeUnixNano", Optional(timestampSchema)),
            Prop("observedTimeUnixNano", Optional(timestampSchema)),
            Prop("severityNumber", Optional(ZInt(0, 24))),
            Prop("severityText", Optional(ZString)),
            Prop("body", Optional(anyValueSchema)),
            Prop("attributes", ZKeyValues), Prop("droppedAttributesCount", ZCount),
            Prop("flags", Optional(ZInt(-1, -1))),
            Prop("traceId", Optional(traceIdSchema)), Prop("spanId", Optional(spanIdSchema))>>)
scopeLogsSchema ==
  ZObject(<<Prop("scope", Optional(instrumentationScopeSchema)),
            Prop("logRecords", Optional(ZArray(logRecordSchema))),
            Prop("schemaUrl", Optional(ZString))>>)
resourceLogsSchema ==
  ZObject(<<Prop("resource", Optional(resourceSchema)),
            Prop("scopeLogs", Optional(ZArray(scopeLogsSchema))),
            Prop("schemaUrl", Optional(ZString))>>)
zodLogsSchema == ZObject(<<Prop("resourceLogs", Optional(ZArray(resourceLogsSchema)))>>)

Issue(path, check) == [path |-> path, check |-> check]
\* the checks of z.number() on a number
NumberIssues(sch, d, path) ==
  IF ~Has(sch, "int") THEN <<>>
  ELSE (IF d.frac THEN <<Issue(path, "int")>> ELSE <<>>)
       \o (IF sch.min # -1 /\ d.n < sch.min THEN <<Issue(path, "min")>> ELSE <<>>)
       \o (IF sch.max # -1 /\ (d.n > sch.max \/ (d.n = sch.max /\ d.frac))
             THEN <<Issue(path, "max")>> ELSE <<>>)
\* schema.safeParse(d).error.issues, none when the parse succeeds
RECURSIVE ZodIssues(_, _, _)
ZodIssues(sch, d, path) ==
  CASE sch.z = "optional" -> IF d = Undef THEN <<>> ELSE ZodIssues(sch.inner, d, path)
    [] sch.z = "lazy" -> ZodIssues(Lazy(sch.name), d, path)
    [] sch.z = "string" ->
         IF d.t # "str" THEN <<Issue(path, "type")>>
         ELSE IF Has(sch, "regex") /\ ~MatchesHex(d.s, sch.regex) THEN <<Issue(path, "regex")>>
         ELSE <<>>
    [] sch.z = "number" ->
         IF d.t # "num" THEN <<Issue(path, "type")>> ELSE NumberIssues(sch, d, path)
    [] sch.z = "boolean" -> IF d.t # "bool" THEN <<Issue(path, "type")>> ELSE <<>>
    [] sch.z = "union" ->
         IF \E i \in DOMAIN sch.options : ZodIssues(sch.options[i], d, path) = <<>>
           THEN <<>> ELSE <<Issue(path, "union")>>
    [] sch.z = "array" ->
         IF d.t # "arr" THEN <<Issue(path, "type")>>
         ELSE Flatten([i \in DOMAIN d.a |->
                ZodIssues(sch.element, d.a[i], path \o "/" \o ToString(i - 1))])
    [] OTHER ->
         IF d.t # "obj" THEN <<Issue(path, "type")>>
         ELSE Flatten([i \in DOMAIN sch.shape |->
                ZodIssues(sch.shape[i].s, Get(d, sch.shape[i].k),
                          path \o "/" \o sch.shape[i].k)])
\* the issues of the Zod schema of a kind of document
safeParse(payloadType, payload) ==
  ZodIssues(IF payloadType = "traces" THEN zodTracesSchema ELSE zodLogsSchema, payload, "")

(***************************************************************************)
(* Semantic checkers.  A checker returns [threw, errors, warnings]; threw  *)
(* stands for the TypeError of reading a property of null, which no        *)
(* checker catches and which ends the whole call.                          *)
(***************************************************************************)
Threw == [threw |-> TRUE, errors |-> <<>>, warnings |-> <<>>]
Issues(errors, warnings) == [threw |-> FALSE, errors |-> errors, warnings |-> warnings]
NoIssues == Issues(<<>>, <<>>)
ErrorIf(cond, err) == Issues(IF cond THEN <<err>> ELSE <<>>, <<>>)
WarningIf(cond, warn) == Issues(<<>>, IF cond THEN <<warn>> ELSE <<>>)
\* statement a followed by statement b
Then(a, b) ==
  IF a.threw \/ b.threw THEN Threw
  ELSE Issues(a.errors \o b.errors, a.warnings \o b.warnings)
\* a faulty loop: the elements are visited from the last to the first
ForEach_Backwards(rs) ==
  IF \E i \in DOMAIN rs : rs[i].threw THEN Threw
  ELSE Issues(Flatten([i \in DOMAIN rs |-> rs[Len(rs) + 1 - i].errors]),
              Flatten([i \in DOMAIN rs |-> rs[Len(rs) + 1 - i].warnings]))
\* array.forEach: rs[i] is what the callback does for element i; an
\* exception in a callback ends the loop and the checker
ForEach(rs) ==
  IF \E i \in DOMAIN rs : rs[i].threw THEN Threw
  ELSE Issues(Flatten([i \in DOMAIN rs |-> rs[i].errors]),
              Flatten([i \in DOMAIN rs |-> rs[i].warnings]))
\* the statements ss[1], ..., ss[Len(ss)] one after the other
Block(ss) == ForEach(ss)
\* x && Array.isArray(x)
IsArray(v) == Truthy(v) /\ IsArr(v)

ZeroTraceId == Str(Rep("0", 32))
ZeroSpanId == Str(Rep("0", 16))
\* the 1 minute grace period, BigInt(60_000_000_000)
GraceNanos == Big(FALSE, <<6, 0, 0, 0, 0, 0, 0, 0, 0, 0, 0>>)
\* BigInt(Date.now()) * BigInt(1_000_000), now in milliseconds
NowNano(now) == BigMul(now, BigOfNat(1000000))

\* a faulty clock skew check: a start time in the future is an error
SpanTimes_FutureIsError(span, basePath, now) ==
  LET start == Get(span, "startTimeUnixNano")
      end == Get(span, "endTimeUnixNano")
      startTime == BigInt(start)
      endTime == BigInt(end)
  IN IF start # Undef /\ end # Undef /\ startTime.ok /\ endTime.ok
       THEN Issues(
              (IF BigLess(endTime.v, startTime.v)
                 THEN <<Error(basePath \o "/endTimeUnixNano",
                              <<"endTimeUnixNano must be greater than or equal to startTimeUnixNano">>,
                              "semantic", "#/$defs/span/properties/endTimeUnixNano")>>
                 ELSE <<>>)
              \o (IF BigLess(BigAdd(NowNano(now), GraceNanos), startTime.v)
                    THEN <<Error(basePath \o "/startTimeUnixNano",
                                 <<"startTimeUnixNano is significantly in the future, possible clock skew">>,
                                 "semantic", "#/$defs/span/properties/startTimeUnixNano")>>
                    ELSE <<>>),
              <<>>)
       ELSE NoIssues
\* lines 54-81: the ordering error and the clock skew warning share one try block
SpanTimes(span, basePath, now) ==
  LET start == Get(span, "startTimeUnixNano")
      end == Get(span, "endTimeUnixNano")
      startTime == BigInt(start)
      endTime == BigInt(end)
  IN IF start # Undef /\ end # Undef /\ startTime.ok /\ endTime.ok
       THEN Issues(
              IF BigLess(endTime.v, startTime.v)
                THEN <<Error(basePath \o "/endTimeUnixNano",
                             <<"endTimeUnixNano must be greater than or equal to startTimeUnixNano">>,
                             "semantic", "#/$defs/span/properties/endTimeUnixNano")>>
                ELSE <<>>,
              IF BigLess(BigAdd(NowNano(now), GraceNanos), startTime.v)
                THEN <<Warning(basePath \o "/startTimeUnixNano",
                               <<"startTimeUnixNano is significantly in the future, possible clock skew">>,
                               <<"Verify timestamp is in nanoseconds since Unix epoch">>)>>
                ELSE <<>>)
       ELSE NoIssues

\* lines 83-106
SpanEvent(span, event, eventPath) ==
  IF Nullish(event) THEN Threw
  ELSE
    LET eventTime == BigInt(Get(event, "timeUnixNano"))
        startTime == BigInt(Get(span, "startTimeUnixNano"))
        endTime == BigInt(Get(span, "endTimeUnixNano"))
    IN WarningIf(/\ Get(event, "timeUnixNano") # Undef
                 /\ Get(span, "startTimeUnixNano") # Undef
                 /\ Get(span, "endTimeUnixNano") # Undef
                 /\ eventTime.ok /\ startTime.ok /\ endTime.ok
                 /\ (BigLess(eventTime.v, startTime.v) \/ BigLess(endTime.v, eventTime.v)),
                 Warning(eventPath \o "/timeUnixNano",
                         <<"Event timestamp is outside span time bounds">>,
                         <<"Event should occur between span start and end times">>))
SpanEvents(span, basePath) ==
  LET events == Get(span, "events")
  IN IF IsArray(events)
       THEN ForEach([i \in DOMAIN events.a |->
                      SpanEvent(span, events.a[i], basePath \o "/events/" \o ToString(i - 1))])
       ELSE NoIssues

\* a faulty link check: the spanId of a link is not looked at
SpanLink_TraceIdOnly(link, linkPath) ==
  IF Nullish(link) THEN Threw
  ELSE ErrorIf(Get(link, "traceId") = ZeroTraceId,
               Error(linkPath \o "/traceId", <<"Link traceId must not be all zeros">>,
                     "semantic", "#/$defs/link/properties/traceId"))
\* lines 108-128
SpanLink(link, linkPath) ==
  IF Nullish(link) THEN Threw
  ELSE Then(ErrorIf(Get(link, "traceId") = ZeroTraceId,
                    Error(linkPath \o "/traceId", <<"Link traceId must not be all zeros">>,
                          "semantic", "#/$defs/link/properties/traceId")),
            ErrorIf(Get(link, "spanId") = ZeroSpanId,
                    Error(linkPath \o "/spanId", <<"Link spanId must not be all zeros">>,
                          "semantic", "#/$defs/link/properties/spanId")))
SpanLinks(span, basePath) ==
  LET links == Get(span, "links")
  IN IF IsArray(links)
       THEN ForEach([i \in DOMAIN links.a |->
                      SpanLink(links.a[i], basePath \o "/links/" \o ToString(i - 1))])
       ELSE NoIssues

\* lines 31-129: the callback of ss.spans.forEach
SpanSemantics(span, basePath, now) ==
  IF Nullish(span) THEN Threw
  ELSE
    Block(<<
         ErrorIf(Truthy(Get(span, "traceId")) /\ Get(span, "traceId") = ZeroTraceId,
                 Error(basePath \o "/traceId", <<"traceId must not be all zeros">>,
                       "semantic", "#/$defs/span/properties/traceId")),
         ErrorIf(Truthy(Get(span, "spanId")) /\ Get(span, "spanId") = ZeroSpanId,
                 Error(basePath \o "/spanId", <<"spanId must not be all zeros">>,
                       "semantic", "#/$defs/span/properties/spanId")),
         SpanTimes(span, basePath, now),
         SpanEvents(span, basePath),
         SpanLinks(span, basePath)>>)

ScopeSpansSemantics(ss, ssPath, now) ==
  IF Nullish(ss) THEN Threw
  ELSE IF ~IsArray(Get(ss, "spans")) THEN NoIssues
  ELSE ForEach([i \in DOMAIN Get(ss, "spans").a |->
                 SpanSemantics(Get(ss, "spans").a[i], ssPath \o "/spans/" \o ToString(i - 1), now)])
ResourceSpansSemantics(rs, rsPath, now) ==
  IF Nullish(rs) THEN Threw
  ELSE IF ~IsArray(Get(rs, "scopeSpans")) THEN NoIssues
  ELSE ForEach([i \in DOMAIN Get(rs, "scopeSpans").a |->
                 ScopeSpansSemantics(Get(rs, "scopeSpans").a[i],
                                     rsPath \o "/scopeSpans/" \o ToString(i - 1), now)])
validateTraceSemantics(payload, now) ==
  IF Nullish(payload) THEN Threw
  ELSE IF ~IsArray(Get(payload, "resourceSpans")) THEN NoIssues
  ELSE ForEach([i \in DOMAIN Get(payload, "resourceSpans").a |->
                 ResourceSpansSemantics(Get(payload, "resourceSpans").a[i],
                                        "/resourceSpans/" \o ToString(i - 1), now)])

(***************************************************************************)
(* JavaScript operators the metrics checker applies to untyped values      *)
(***************************************************************************)
NaN == [t |-> "nan"]
\* value.length
JsLength(v) ==
  CASE v.t = "arr" -> Num(Len(v.a))
    [] v.t = "str" -> Num(Len(v.s))
    [] OTHER -> Get(v, "length")
\* value + 1
JsPlusOne(v) ==
  CASE v.t = "num" -> [v EXCEPT !.n = v.n + 1]
    [] v.t = "bool" -> Num(IF v.b THEN 2 ELSE 1)
    [] v.t = "null" -> Num(1)
    [] v.t \in {"undef", "nan"} -> NaN
    [] OTHER -> Str(JsToString(v) \o <<"1">>)
\* a !== b
StrictNotEqual(a, b) == a.t = "nan" \/ b.t = "nan" \/ a.t \in {"arr", "obj"} \/ a # b
\* `${value}`
Template(v) == IF v.t = "nan" THEN <<"N", "a", "N">> ELSE JsToString(v)
CharCode(c) ==
  CASE c \in Range(DigitChars) -> 47 + IndexOf(c, DigitChars)
    [] c \in Range(UpperChars) -> 64 + IndexOf(c, UpperChars)
    [] c \in Range(LowerChars) -> 96 + IndexOf(c, LowerChars)
    [] c = " " -> 32
    [] c = "+" -> 43
    [] c = "," -> 44
    [] c = "-" -> 45
    [] c = "." -> 46
    [] c = "[" -> 91
    [] c = "]" -> 93
    [] OTHER -> 0
RECURSIVE StrLeq(_, _)
StrLeq(a, b) ==
  IF a = <<>> THEN TRUE
  ELSE IF b = <<>> THEN FALSE
  ELSE IF a[1] # b[1] THEN CharCode(a[1]) < CharCode(b[1])
  ELSE StrLeq(Tail(a), Tail(b))
\* StringToNumber, on twice the value so that n + 0.5 is an integer: [ok, v]
StringToDouble(str) ==
  LET s == Trim(str)
      signed == s # <<>> /\ s[1] \in {"+", "-"}
      body == IF signed THEN Tail(s) ELSE s
      half == Len(body) > 2 /\ SubSeq(body, Len(body) - 1, Len(body)) = <<".", "5">>
      int == IF half THEN SubSeq(body, 1, Len(body) - 2) ELSE body
      RECURSIVE Value(_, _)
      Value(ds, acc) == IF ds = <<>> THEN acc ELSE Value(Tail(ds), 10 * acc + HexVal(ds[1]))
      mag == 2 * Value(int, 0) + (IF half THEN 1 ELSE 0)
  IN IF s = <<>> THEN [ok |-> TRUE, v |-> 0]
     ELSE IF AllDigits(int, 10) /\ Len(int) <= 8
       THEN [ok |-> TRUE, v |-> IF signed /\ s[1] = "-" THEN -mag ELSE mag]
       ELSE [ok |-> FALSE, v |-> 0]
\* ToNumber, on twice the value: [ok, v], ok = FALSE for NaN
ToDouble(v) ==
  CASE v.t = "num" -> [ok |-> TRUE, v |-> 2 * v.n + (IF v.frac THEN 1 ELSE 0)]
    [] v.t = "bool" -> [ok |-> TRUE, v |-> IF v.b THEN 2 ELSE 0]
    [] v.t = "null" -> [ok |-> TRUE, v |-> 0]
    [] v.t = "str" -> StringToDouble(v.s)
    [] v.t \in {"arr", "obj"} -> StringToDouble(JsToString(v))
    [] OTHER -> [ok |-> FALSE, v |-> 0]
\* a <= b
JsLeq(a, b) ==
  LET pa == IF a.t \in {"arr", "obj"} THEN Str(JsToString(a)) ELSE a
      pb == IF b.t \in {"arr", "obj"} THEN Str(JsToString(b)) ELSE b
  IN IF pa.t = "str" /\ pb.t = "str" THEN StrLeq(pa.s, pb.s)
     ELSE ToDouble(pa).ok /\ ToDouble(pb).ok /\ ToDouble(pa).v <= ToDouble(pb).v

(***************************************************************************)
(* validateMetricSemantics                                                 *)
(***************************************************************************)
METRIC_DATA_TYPES == <<"gauge", "sum", "histogram", "exponentialHistogram", "summary">>
\* METRIC_DATA_TYPES.filter(dt => metric[dt] !== undefined)
presentDataTypes(metric) == SelectSeq(METRIC_DATA_TYPES, LAMBDA dt : Get(metric, dt) # Undef)

\* a faulty cardinality check: several populated variants go unreported
VariantCount_ZeroOnly(metric, basePath) ==
  ErrorIf(Len(presentDataTypes(metric)) = 0, Error(basePath,
    <<"Metric must have exactly one data type (gauge, sum, histogram, exponentialHistogram, or summary)">>,
    "semantic", "#/$defs/metric"))
\* lines 36-53
VariantCount(metric, basePath) ==
  LET present == presentDataTypes(metric)
  IN IF Len(present) = 0
       THEN ErrorIf(TRUE, Error(basePath,
              <<"Metric must have exactly one data type (gauge, sum, histogram, exponentialHistogram, or summary)">>,
              "semantic", "#/$defs/metric"))
     ELSE ErrorIf(Len(present) > 1, Error(basePath,
              <<"Metric has multiple data types: ">> \o JoinNames(present, ", ")
                 \o <<". Only one is allowed.">>,
              "semantic", "#/$defs/metric"))

\* a faulty time check: a time equal to the start time is reported too
PointTimes_NotAfter(dp, dpPath) ==
  LET start == BigInt(Get(dp, "startTimeUnixNano"))
      end == BigInt(Get(dp, "timeUnixNano"))
  IN ErrorIf(/\ Get(dp, "startTimeUnixNano") # Undef /\ Get(dp, "timeUnixNano") # Undef
             /\ start.ok /\ end.ok /\ ~BigLess(start.v, end.v),
             Error(dpPath \o "/timeUnixNano", <<"timeUnixNano must be >= startTimeUnixNano">>,
                   "semantic", "#/properties/timeUnixNano"))
\* lines 63-80
PointTimes(dp, dpPath) ==
  LET start == BigInt(Get(dp, "startTimeUnixNano"))
      end == BigInt(Get(dp, "timeUnixNano"))
  IN ErrorIf(/\ Get(dp, "startTimeUnixNano") # Undef /\ Get(dp, "timeUnixNano") # Undef
             /\ start.ok /\ end.ok /\ BigLess(end.v, start.v),
             Error(dpPath \o "/timeUnixNano", <<"timeUnixNano must be >= startTimeUnixNano">>,
                   "semantic", "#/properties/timeUnixNano"))

\* a faulty bucket check: the overflow bucket is forgotten
BucketCounts_SameLength(dp, dpPath) ==
  LET bucketCounts == Get(dp, "bucketCounts")
      explicitBounds == Get(dp, "explicitBounds")
  IN IF ~(Truthy(bucketCounts) /\ Truthy(explicitBounds)) THEN NoIssues
     ELSE ErrorIf(StrictNotEqual(JsLength(bucketCounts), JsLength(explicitBounds)),
            Error(dpPath \o "/bucketCounts",
                  <<"bucketCounts length (">> \o Template(JsLength(bucketCounts))
                    \o <<") must be explicitBounds length (">>
                    \o Template(JsLength(explicitBounds)) \o <<")">>,
                  "semantic", "#/$defs/histogramDataPoint/properties/bucketCounts"))
\* lines 84-94
BucketCounts(dp, dpPath) ==
  LET bucketCounts == Get(dp, "bucketCounts")
      explicitBounds == Get(dp, "explicitBounds")
  IN IF ~(Truthy(bucketCounts) /\ Truthy(explicitBounds)) THEN NoIssues
     ELSE ErrorIf(StrictNotEqual(JsLength(bucketCounts), JsPlusOne(JsLength(explicitBounds))),
            Error(dpPath \o "/bucketCounts",
                  <<"bucketCounts length (">> \o Template(JsLength(bucketCounts))
                    \o <<") must be explicitBounds length + 1 (">>
                    \o Template(JsPlusOne(JsLength(explicitBounds))) \o <<")">>,
                  "semantic", "#/$defs/histogramDataPoint/properties/bucketCounts"))

\* a faulty loop: it goes on after a violation and reports every one
BoundsFrom_EveryViolation(eb, i, dpPath) ==
  ForEach([k \in 1..(Len(eb) - 1) |->
    ErrorIf(k + 1 >= i /\ JsLeq(eb[k + 1], eb[k]),
            Error(dpPath \o "/explicitBounds/" \o ToString(k),
                  <<"explicitBounds must be strictly increasing (">> \o Template(eb[k + 1])
                    \o <<" <= ">> \o Template(eb[k]) \o <<")">>,
                  "semantic", "#/$defs/histogramDataPoint/properties/explicitBounds"))])
\* lines 96-109: the loop stops at the first violation
RECURSIVE BoundsFrom(_, _, _)
BoundsFrom(eb, i, dpPath) ==
  IF i > Len(eb) THEN NoIssues
  ELSE IF JsLeq(eb[i], eb[i - 1])
    THEN ErrorIf(TRUE, Error(dpPath \o "/explicitBounds/" \o ToString(i - 1),
                   <<"explicitBounds must be strictly increasing (">> \o Template(eb[i])
                     \o <<" <= ">> \o Template(eb[i - 1]) \o <<")">>,
                   "semantic", "#/$defs/histogramDataPoint/properties/explicitBounds"))
  ELSE BoundsFrom(eb, i + 1, dpPath)
ExplicitBounds(dp, dpPath) ==
  IF IsArray(Get(dp, "explicitBounds"))
    THEN BoundsFrom(Get(dp, "explicitBounds").a, 2, dpPath)
    ELSE NoIssues

\* a faulty exemplar check: an all-zero traceId is an error
Exemplar_ZeroTraceIdError(ex, exPath) ==
  IF Nullish(ex) THEN Threw
  ELSE Then(ErrorIf(Get(ex, "traceId") = ZeroTraceId,
                    Error(exPath \o "/traceId", <<"Exemplar traceId is all zeros">>,
                          "semantic", "#/$defs/exemplar/properties/traceId")),
            WarningIf(Get(ex, "spanId") = ZeroSpanId,
                      Warning(exPath \o "/spanId", <<"Exemplar spanId is all zeros">>,
                              <<"Consider omitting spanId if no trace context exists">>)))
\* lines 112-130
Exemplar(ex, exPath) ==
  IF Nullish(ex) THEN Threw
  ELSE Then(WarningIf(Get(ex, "traceId") = ZeroTraceId,
                      Warning(exPath \o "/traceId", <<"Exemplar traceId is all zeros">>,
                              <<"Consider omitting traceId if no trace context exists">>)),
            WarningIf(Get(ex, "spanId") = ZeroSpanId,
                      Warning(exPath \o "/spanId", <<"Exemplar spanId is all zeros">>,
                              <<"Consider omitting spanId if no trace context exists">>)))
PointExemplars(dp, dpPath) ==
  LET exemplars == Get(dp, "exemplars")
  IN IF IsArray(exemplars)
       THEN ForEach([i \in DOMAIN exemplars.a |->
                      Exemplar(exemplars.a[i], dpPath \o "/exemplars/" \o ToString(i - 1))])
       ELSE NoIssues

\* lines 60-131: the callback of metricData.dataPoints.forEach
DataPoint(dp, dataType, dpPath) ==
  IF Nullish(dp) THEN Threw
  ELSE Block(<<PointTimes(dp, dpPath),
               IF dataType = "histogram"
                 THEN Then(BucketCounts(dp, dpPath), ExplicitBounds(dp, dpPath))
                 ELSE NoIssues,
               PointExemplars(dp, dpPath)>>)

\* a faulty sum check: every monotonic sum is warned about, whatever its temporality
SumMonotonicDelta_AnyTemporality(dataType, metricData, basePath) ==
  WarningIf(/\ dataType = "sum" /\ Truthy(metricData)
            /\ Get(metricData, "isMonotonic") = Bool(TRUE),
            Warning(basePath \o "/sum",
                    <<"Monotonic sum with DELTA aggregation temporality is uncommon">>,
                    <<"Verify this is intentional; CUMULATIVE is more common for monotonic sums">>))
\* lines 134-144
SumMonotonicDelta(dataType, metricData, basePath) ==
  WarningIf(/\ dataType = "sum" /\ Truthy(metricData)
            /\ Get(metricData, "isMonotonic") = Bool(TRUE)
            /\ Get(metricData, "aggregationTemporality") = Num(1),
            Warning(basePath \o "/sum",
                    <<"Monotonic sum with DELTA aggregation temporality is uncommon">>,
                    <<"Verify this is intentional; CUMULATIVE is more common for monotonic sums">>))

\* a faulty selection: the data points of every populated variant are checked
MetricSemantics_EveryVariant(metric, basePath) ==
  IF Nullish(metric) THEN Threw
  ELSE
    LET present == presentDataTypes(metric)
        Points(dt) == IF Nullish(Get(metric, dt)) THEN Undef
                      ELSE Get(Get(metric, dt), "dataPoints")
    IN Block(<<VariantCount(metric, basePath),
               ForEach([k \in DOMAIN present |->
                 IF IsArray(Points(present[k]))
                   THEN ForEach([i \in DOMAIN Points(present[k]).a |->
                          DataPoint(Points(present[k]).a[i], present[k],
                                    basePath \o "/" \o present[k] \o "/dataPoints/"
                                      \o ToString(i - 1))])
                   ELSE NoIssues]),
               SumMonotonicDelta(IF present = <<>> THEN "undefined" ELSE present[1],
                                 Get(metric, IF present = <<>> THEN "undefined" ELSE present[1]),
                                 basePath)>>)
\* lines 33-145: the callback of sm.metrics.forEach
MetricSemantics(metric, basePath) ==
  IF Nullish(metric) THEN Threw
  ELSE
    LET present == presentDataTypes(metric)
        \* presentDataTypes[0], undefined when no variant is populated
        dataType == IF present = <<>> THEN "undefined" ELSE present[1]
        metricData == Get(metric, dataType)
        dataPoints == IF Nullish(metricData) THEN Undef ELSE Get(metricData, "dataPoints")
    IN Block(<<VariantCount(metric, basePath),
               IF IsArray(dataPoints)
                 THEN ForEach([i \in DOMAIN dataPoints.a |->
                        DataPoint(dataPoints.a[i], dataType,
                                  basePath \o "/" \o dataType \o "/dataPoints/" \o ToString(i - 1))])
                 ELSE NoIssues,
               SumMonotonicDelta(dataType, metricData, basePath)>>)

ScopeMetricsSemantics(sm, smPath) ==
  IF Nullish(sm) THEN Threw
  ELSE IF ~IsArray(Get(sm, "metrics")) THEN NoIssues
  ELSE ForEach([i \in DOMAIN Get(sm, "metrics").a |->
                 MetricSemantics(Get(sm, "metrics").a[i], smPath \o "/metrics/" \o ToString(i - 1))])
ResourceMetricsSemantics(rm, rmPath) ==
  IF Nullish(rm) THEN Threw
  ELSE IF ~IsArray(Get(rm, "scopeMetrics")) THEN NoIssues
  ELSE ForEach([i \in DOMAIN Get(rm, "scopeMetrics").a |->
                 ScopeMetricsSemantics(Get(rm, "scopeMetrics").a[i],
                                       rmPath \o "/scopeMetrics/" \o ToString(i - 1))])
validateMetricSemantics(payload) ==
  IF Nullish(payload) THEN Threw
  ELSE IF ~IsArray(Get(payload, "resourceMetrics")) THEN NoIssues
  ELSE ForEach([i \in DOMAIN Get(payload, "resourceMetrics").a |->
                 ResourceMetricsSemantics(Get(payload, "resourceMetrics").a[i],
                                          "/resourceMetrics/" \o ToString(i - 1))])

(***************************************************************************)
(* validateLogSemantics                                                    *)
(***************************************************************************)
\* SEVERITY_BASE_NAMES[n] for the keys 0 .. 24
SeverityBand(n) ==
  CASE n = 0 -> "UNSPECIFIED"
    [] n \in 1..4 -> "TRACE"
    [] n \in 5..8 -> "DEBUG"
    [] n \in 9..12 -> "INFO"
    [] n \in 13..16 -> "WARN"
    [] n \in 17..20 -> "ERROR"
    [] OTHER -> "FATAL"
BandChars(name) ==
  CASE name = "UNSPECIFIED" -> <<"U", "N", "S", "P", "E", "C", "I", "F", "I", "E", "D">>
    [] name = "TRACE" -> <<"T", "R", "A", "C", "E">>
    [] name = "DEBUG" -> <<"D", "E", "B", "U", "G">>
    [] name = "INFO" -> <<"I", "N", "F", "O">>
    [] name = "WARN" -> <<"W", "A", "R", "N">>
    [] name = "ERROR" -> <<"E", "R", "R", "O", "R">>
    [] OTHER -> <<"F", "A", "T", "A", "L">>
\* SEVERITY_BASE_NAMES[key]: the key is converted to a property name, so 9,
\* "9" and [9] all read the entry of 9; any other key reads undefined
SEVERITY_BASE_NAMES(key) ==
  LET name == IF Nullish(key) THEN <<"?">> ELSE JsToString(key)
      hits == {n \in 0..24 : DigitsToChars(StripZeros(NatDigits(n))) = name}
  IN IF hits = {} THEN Undef ELSE Str(BandChars(SeverityBand(CHOOSE n \in hits : TRUE)))

\* a faulty severity check: only the band name itself passes, INFO2 does not
SeverityText_ExactName(log, basePath) ==
  LET severityNumber == Get(log, "severityNumber")
      severityText == Get(log, "severityText")
      expectedBaseName == SEVERITY_BASE_NAMES(severityNumber)
  IN IF ~(severityNumber # Undef /\ Truthy(severityText)) THEN NoIssues
     ELSE IF ~Truthy(expectedBaseName) THEN NoIssues
     ELSE IF ~IsStr(severityText) THEN Threw
     ELSE WarningIf(ToUpperCase(severityText.s) # expectedBaseName.s,
                    Warning(basePath \o "/severityText",
                            <<"severityText \"">> \o severityText.s
                              \o <<"\" may not match severityNumber ">>
                              \o Template(severityNumber),
                            <<"Expected severity text to be \"">> \o expectedBaseName.s
                              \o <<"\" or similar">>))
\* lines 83-98: severityText.toUpperCase is a TypeError unless severityText is a string
SeverityText(log, basePath) ==
  LET severityNumber == Get(log, "severityNumber")
      severityText == Get(log, "severityText")
      expectedBaseName == SEVERITY_BASE_NAMES(severityNumber)
  IN IF ~(severityNumber # Undef /\ Truthy(severityText)) THEN NoIssues
     ELSE IF ~Truthy(expectedBaseName) THEN NoIssues
     ELSE IF ~IsStr(severityText) THEN Threw
     ELSE LET severityTextUpper == ToUpperCase(severityText.s)
          IN WarningIf(/\ ~StartsWith(severityTextUpper, expectedBaseName.s)
                       /\ severityTextUpper # expectedBaseName.s,
                       Warning(basePath \o "/severityText",
                               <<"severityText \"">> \o severityText.s
                                 \o <<"\" may not match severityNumber ">>
                                 \o Template(severityNumber),
                               <<"Expected severity text to be \"">> \o expectedBaseName.s
                                 \o <<"\" or similar">>))

\* lines 65-81
LogTimes(log, basePath) ==
  LET time == BigInt(Get(log, "timeUnixNano"))
      observedTime == BigInt(Get(log, "observedTimeUnixNano"))
  IN WarningIf(/\ Get(log, "timeUnixNano") # Undef /\ Get(log, "observedTimeUnixNano") # Undef
               /\ time.ok /\ observedTime.ok /\ BigLess(observedTime.v, time.v),
               Warning(basePath \o "/observedTimeUnixNano",
                       <<"observedTimeUnixNano is earlier than timeUnixNano">>,
                       <<"observedTimeUnixNano should typically be >= timeUnixNano">>))

\* lines 42-108: the callback of sl.logRecords.forEach
LogSemantics(log, basePath) ==
  IF Nullish(log) THEN Threw
  ELSE
    Block(<<
         ErrorIf(/\ Truthy(Get(log, "traceId")) /\ Get(log, "traceId") # Str(<<>>)
                 /\ Get(log, "traceId") = ZeroTraceId,
                 Error(basePath \o "/traceId", <<"traceId must not be all zeros when present">>,
                       "semantic", "#/$defs/logRecord/properties/traceId")),
         ErrorIf(/\ Truthy(Get(log, "spanId")) /\ Get(log, "spanId") # Str(<<>>)
                 /\ Get(log, "spanId") = ZeroSpanId,
                 Error(basePath \o "/spanId", <<"spanId must not be all zeros when present">>,
                       "semantic", "#/$defs/logRecord/properties/spanId")),
         LogTimes(log, basePath),
         SeverityText(log, basePath),
         WarningIf(Get(log, "body") = Undef /\ Get(log, "severityNumber") = Undef,
                   Warning(basePath, <<"Log record has neither body nor severityNumber">>,
                           <<"Consider adding a body or severity for meaningful logs">>))>>)

ScopeLogsSemantics(sl, slPath) ==
  IF Nullish(sl) THEN Threw
  ELSE IF ~IsArray(Get(sl, "logRecords")) THEN NoIssues
  ELSE ForEach([i \in DOMAIN Get(sl, "logRecords").a |->
                 LogSemantics(Get(sl, "logRecords").a[i],
                              slPath \o "/logRecords/" \o ToString(i - 1))])
ResourceLogsSemantics(rl, rlPath) ==
  IF Nullish(rl) THEN Threw
  ELSE IF ~IsArray(Get(rl, "scopeLogs")) THEN NoIssues
  ELSE ForEach([i \in DOMAIN Get(rl, "scopeLogs").a |->
                 ScopeLogsSemantics(Get(rl, "scopeLogs").a[i],
                                    rlPath \o "/scopeLogs/" \o ToString(i - 1))])
validateLogSemantics(payload) ==
  IF Nullish(payload) THEN Threw
  ELSE IF ~IsArray(Get(payload, "resourceLogs")) THEN NoIssues
  ELSE ForEach([i \in DOMAIN Get(payload, "resourceLogs").a |->
                 ResourceLogsSemantics(Get(payload, "resourceLogs").a[i],
                                       "/resourceLogs/" \o ToString(i - 1))])

(***************************************************************************)
(* The orchestrator                                                        *)
(***************************************************************************)
\* 'k' in obj
In(k, v) == v.t = "obj" /\ k \in DOMAIN v.o
\* a faulty detector: a field of a recognised name counts whatever its value
detectPayloadType_NoArrayCheck(payload) ==
  IF ~Truthy(payload) \/ payload.t \notin {"obj", "arr"} THEN "null"
  ELSE IF In("resourceSpans", payload) THEN "traces"
  ELSE IF In("resourceLogs", payload) THEN "logs"
  ELSE IF In("resourceMetrics", payload) THEN "metrics"
  ELSE "null"
\* a faulty detector: resourceMetrics is looked at before resourceLogs
detectPayloadType_MetricsBeforeLogs(payload) ==
  IF ~Truthy(payload) \/ payload.t \notin {"obj", "arr"} THEN "null"
  ELSE IF In("resourceSpans", payload) /\ IsArr(Get(payload, "resourceSpans")) THEN "traces"
  ELSE IF In("resourceMetrics", payload) /\ IsArr(Get(payload, "resourceMetrics")) THEN "metrics"
  ELSE IF In("resourceLogs", payload) /\ IsArr(Get(payload, "resourceLogs")) THEN "logs"
  ELSE "null"
\* "null" stands for the null payload type
detectPayloadType(payload) ==
  IF ~Truthy(payload) \/ payload.t \notin {"obj", "arr"} THEN "null"
  ELSE IF In("resourceSpans", payload) /\ IsArr(Get(payload, "resourceSpans")) THEN "traces"
  ELSE IF In("resourceLogs", payload) /\ IsArr(Get(payload, "resourceLogs")) THEN "logs"
  ELSE IF In("resourceMetrics", payload) /\ IsArr(Get(payload, "resourceMetrics")) THEN "metrics"
  ELSE "null"

semanticValidators(payloadType, payload, now) ==
  CASE payloadType = "traces" -> validateTraceSemantics(payload, now)
    [] payloadType = "logs" -> validateLogSemantics(payload)
    [] OTHER -> validateMetricSemantics(payload)

\* lines 65-74: the Ajv errors as ValidationErrors
schemaErrors(payloadType, payload) ==
  LET errs == validators(payloadType, payload)
  IN [i \in DOMAIN errs |->
        Error(IF errs[i].path = "" THEN "/" ELSE errs[i].path, errs[i].message,
              errs[i].keyword, errs[i].schemaPath)]

\* what a call of validateOTLPPayload comes to: a ValidationResult or an exception
Returned(valid, payloadType, errors, warnings) ==
  [status |-> "returned", valid |-> valid, payloadType |-> payloadType, errors |-> errors,
   warnings |-> warnings]
Thrown ==
  [status |-> "threw", valid |-> FALSE, payloadType |-> "null", errors |-> <<>>,
   warnings |-> Undef]
NotCalled ==
  [status |-> "idle", valid |-> FALSE, payloadType |-> "null", errors |-> <<>>,
   warnings |-> Undef]

\* a faulty orchestrator: a warning makes the result invalid
Validated_WarningsInvalidate(payloadType, structural, semanticResult) ==
  IF semanticResult.threw THEN Thrown
  ELSE Returned(structural \o semanticResult.errors = <<>> /\ semanticResult.warnings = <<>>,
                payloadType, structural \o semanticResult.errors,
                IF Len(semanticResult.warnings) > 0 THEN Arr(semanticResult.warnings)
                ELSE Undef)
\* a faulty orchestrator: the semantic errors are listed first
Validated_SemanticFirst(payloadType, structural, semanticResult) ==
  IF semanticResult.threw THEN Thrown
  ELSE Returned(semanticResult.errors \o structural = <<>>, payloadType,
                semanticResult.errors \o structural,
                IF Len(semanticResult.warnings) > 0 THEN Arr(semanticResult.warnings)
                ELSE Undef)
\* lines 59-85 of validateOTLPPayload: the result built from the schema errors and
\* from what the semantic checker returned
Validated(payloadType, structural, semanticResult) ==
  IF semanticResult.threw THEN Thrown
  ELSE Returned(structural \o semanticResult.errors = <<>>, payloadType,
                structural \o semanticResult.errors,
                IF Len(semanticResult.warnings) > 0 THEN Arr(semanticResult.warnings)
                ELSE Undef)
Detected(payloadType, payload, now) ==
  IF payloadType = "null"
    THEN Returned(FALSE, "null",
           <<Error("",
                   <<"Unable to detect payload type. Expected object with \"resourceSpans\", \"resourceLogs\", or \"resourceMetrics\" array">>,
                   "type", "#")>>,
           Undef)
  ELSE Validated(payloadType, schemaErrors(payloadType, payload),
                 semanticValidators(payloadType, payload, now))
validateOTLPPayload(payload, now) == Detected(detectPayloadType(payload), payload, now)

\* the functions a call of validateOTLPPayload runs, in order
Calls(payload) ==
  <<"detectPayloadType">>
    \o (IF detectPayloadType(payload) = "null" THEN <<>>
        ELSE <<"validators", "semanticValidators">>)

(***************************************************************************)
(* pages/api/validate.ts: the POST handler.  A request is its Content-Type *)
(* header (Null when the header is missing), its body and whether reading  *)
(* the body fails.  The text of a body is the JSON text of a value (Undef  *)
(* when it holds none) between the characters lead and trail.              *)
(***************************************************************************)
Text(lead, value, trail) == [lead |-> lead, value |-> value, trail |-> trail]
\* the white space JSON.parse skips, and the white space String.prototype.trim strips
JsonWhiteSpace == {" ", "\t", "\n", "\r"}
TrimWhiteSpace == JsonWhiteSpace \cup {"\f"}
\* text.trim() is the empty string
TrimsToNothing(text) ==
  text.value = Undef /\ Range(text.lead) \cup Range(text.trail) \subseteq TrimWhiteSpace
\* buffer.byteLength === 0
NoBytes(text) == text.value = Undef /\ text.lead = <<>> /\ text.trail = <<>>
\* JSON.parse(text): the value, or the SyntaxError it throws
JSONParse(text) ==
  IF text.value # Undef /\ Range(text.lead) \cup Range(text.trail) \subseteq JsonWhiteSpace
    THEN [ok |-> TRUE, v |-> text.value, message |-> ""]
  ELSE [ok |-> FALSE, v |-> Undef,
        message |-> IF TrimsToNothing(text) THEN "Unexpected end of JSON input"
                    ELSE "Unexpected token"]
\* String.prototype.includes
Includes(s, sub) == \E i \in 0..(Len(s) - Len(sub)) : SubSeq(s, i + 1, i + Len(sub)) = sub
ApplicationJson == <<"a", "p", "p", "l", "i", "c", "a", "t", "i", "o", "n", "/", "j", "s", "o", "n">>
ApplicationXProtobuf ==
  <<"a", "p", "p", "l", "i", "c", "a", "t", "i", "o", "n", "/", "x", "-", "p", "r", "o", "t", "o", "b", "u", "f">>
ApplicationProtobuf == <<"a", "p", "p", "l", "i", "c", "a", "t", "i", "o", "n", "/", "p", "r", "o", "t", "o", "b", "u", "f">>
\* `${result.payloadType}`, and the payloadType of a response body
TypeChars(payloadType) ==
  CASE payloadType = "traces" -> <<"t", "r", "a", "c", "e", "s">>
    [] payloadType = "logs" -> <<"l", "o", "g", "s">>
    [] payloadType = "metrics" -> <<"m", "e", "t", "r", "i", "c", "s">>
    [] OTHER -> <<"n", "u", "l", "l">>
TypeValue(payloadType) == IF payloadType = "null" THEN Null ELSE Str(TypeChars(payloadType))
\* lines 150-161: JSON.stringify leaves out the fields that are undefined
jsonResponse(data, status) == [status |-> status, body |-> Fields(data)]
\* the response of a request the handler turns down
Refusal(message, keyword, status) ==
  jsonResponse([success |-> Bool(FALSE), payloadType |-> Null,
                errors |-> Arr(<<Error("", message, keyword, "#")>>)], status)
\* lines 107-123 and, when validateOTLPPayload throws, 124-136
Answer_WarningsOnSuccess(result) ==
  IF result.status = "threw"
    THEN Refusal(<<"Internal error: ", "TypeError">>, "internal", 500)
  ELSE IF result.valid
    THEN jsonResponse([success |-> Bool(TRUE), payloadType |-> TypeValue(result.payloadType),
                       message |-> Str(<<"Valid ">> \o TypeChars(result.payloadType)
                                         \o <<" payload">>),
                       warnings |-> result.warnings], 200)
  ELSE jsonResponse([success |-> Bool(FALSE), payloadType |-> TypeValue(result.payloadType),
                     errors |-> Arr(result.errors), warnings |-> result.warnings], 400)
Answer_AlwaysOk(result) ==
  IF result.status = "threw"
    THEN Refusal(<<"Internal error: ", "TypeError">>, "internal", 500)
  ELSE jsonResponse([success |-> Bool(TRUE), payloadType |-> TypeValue(result.payloadType),
                     message |-> Str(<<"Valid ">> \o TypeChars(result.payloadType)
                                       \o <<" payload">>)], 200)
Answer_ThrowEscapes(result) ==
  IF result.status = "threw" THEN [status |-> -1, body |-> Undef]
  ELSE IF result.valid
    THEN jsonResponse([success |-> Bool(TRUE), payloadType |-> TypeValue(result.payloadType),
                       message |-> Str(<<"Valid ">> \o TypeChars(result.payloadType)
                                         \o <<" payload">>)], 200)
  ELSE jsonResponse([success |-> Bool(FALSE), payloadType |-> TypeValue(result.payloadType),
                     errors |-> Arr(result.errors), warnings |-> result.warnings], 400)
Answer(result) ==
  IF result.status = "threw"
    THEN Refusal(<<"Internal error: ", "TypeError">>, "internal", 500)
  ELSE IF result.valid
    THEN jsonResponse([success |-> Bool(TRUE), payloadType |-> TypeValue(result.payloadType),
                       message |-> Str(<<"Valid ">> \o TypeChars(result.payloadType)
                                         \o <<" payload">>)], 200)
  ELSE jsonResponse([success |-> Bool(FALSE), payloadType |-> TypeValue(result.payloadType),
                     errors |-> Arr(result.errors), warnings |-> result.warnings], 400)
\* what a request comes to: the document handed to validateOTLPPayload, the
\* result of that call, the functions run and the response
Served(payload, result) ==
  [payload |-> payload, result |-> result, calls |-> Calls(payload), response |-> Answer(result)]
Rejected(response) ==
  [payload |-> Undef, result |-> NotCalled, calls |-> <<>>, response |-> response]
\* lines 23-54
JsonBody_ParseFirst(text, now) ==
  IF JSONParse(text).ok THEN Served(JSONParse(text).v, validateOTLPPayload(JSONParse(text).v, now))
  ELSE IF TrimsToNothing(text)
    THEN Rejected(Refusal(<<"Request body is empty">>, "required", 400))
  ELSE Rejected(Refusal(<<"Invalid JSON: ", JSONParse(text).message>>, "format", 415))
JsonBody(text, now) ==
  IF TrimsToNothing(text)
    THEN Rejected(Refusal(<<"Request body is empty">>, "required", 400))
  ELSE IF ~JSONParse(text).ok
    THEN Rejected(Refusal(<<"Invalid JSON: ", JSONParse(text).message>>, "format", 400))
  ELSE Served(JSONParse(text).v, validateOTLPPayload(JSONParse(text).v, now))
\* lines 56-92
ProtobufBody(text, now) ==
  IF NoBytes(text)
    THEN Rejected(Refusal(<<"Request body is empty">>, "required", 400))
  ELSE IF ~JSONParse(text).ok
    THEN Rejected(Refusal(
           <<"Binary protobuf decoding is not yet fully supported. Please use JSON format (application/json) or send JSON data.">>,
           "format", 415))
  ELSE Served(JSONParse(text).v, validateOTLPPayload(JSONParse(text).v, now))
\* lines 94-105
Unsupported(contentType) ==
  Rejected(Refusal(<<"Unsupported content type: \"">> \o contentType
                     \o <<"\". Use application/json or application/x-protobuf">>,
                   "contentType", 415))
\* lines 16-137, contentType being request.headers.get('content-type') || ''
Handled_ProtobufUnsupported(req, contentType, now) ==
  IF Includes(contentType, ApplicationJson)
    THEN IF req.broken THEN Rejected(Refusal(<<"Internal error: ", "body">>, "internal", 500))
         ELSE JsonBody(req.body, now)
  ELSE Unsupported(contentType)
Handled(req, contentType, now) ==
  IF Includes(contentType, ApplicationJson)
    THEN IF req.broken THEN Rejected(Refusal(<<"Internal error: ", "body">>, "internal", 500))
         ELSE JsonBody(req.body, now)
  ELSE IF Includes(contentType, ApplicationXProtobuf) \/ Includes(contentType, ApplicationProtobuf)
    THEN IF req.broken THEN Rejected(Refusal(<<"Internal error: ", "body">>, "internal", 500))
         ELSE ProtobufBody(req.body, now)
  ELSE Unsupported(contentType)
HeaderOrEmpty(req) == IF Nullish(req.contentType) THEN <<>> ELSE req.contentType.s

(***************************************************************************)
(* Bounds and the documents submitted for validation                       *)
(***************************************************************************)
\* milliseconds the clock may advance
MaxClock == 2
\* records per scope container in the documents built from CoreSpans
MaxSpans == 2
\* resource containers per document in the documents built from CoreContainers
MaxContainers == 2

\* Date.now() when the process starts, in milliseconds
Clock0 == Big(FALSE, <<1, 7, 0, 0, 0, 0, 0, 0, 0, 0, 0, 0, 0>>)
DateNow(clock) == BigAdd(Clock0, BigOfNat(clock))

SeqsUpTo(S, n) == UNION {[1..k -> S] : k \in 0..n}
Dec(n) == Str(DigitsToChars(StripZeros(NatDigits(n))))
BigStr(b) == Str((IF b.neg THEN <<"-">> ELSE <<>>) \o DigitsToChars(b.mag))

\* the top level: each recognised field absent or holding one of these
TopValues == {Undef, Null, Num(1), Str(<<"x">>), EmptyObj, Arr(<<>>), Arr(<<EmptyObj>>)}
TopLevelDocs ==
  {Fields([resourceSpans |-> a, resourceLogs |-> b, resourceMetrics |-> c]) :
     a \in TopValues, b \in TopValues, c \in TopValues}
\* values that are not objects, and objects without a recognised field
OtherDocs ==
  {Null, Bool(TRUE), Bool(FALSE), Num(0), Num(7), NumHalf(0), Str(<<>>), Str(<<"{", "}">>),
   Arr(<<>>), Arr(<<Obj([resourceSpans |-> Arr(<<>>)])>>),
   Obj([spans |-> Arr(<<>>)]),
   Obj([data |-> Obj([resourceSpans |-> Arr(<<>>)])])}

\* a traces document with one resource container and one scope container
TracesOf(spans) ==
  Obj([resourceSpans |-> Arr(<<Obj([scopeSpans |-> Arr(<<Obj([spans |-> Arr(spans)])>>)])>>)])

\* identifiers
OneAt(n) == Str([i \in 1..n |-> IF i = n THEN "1" ELSE "0"])
HexId(n) == Str([i \in 1..n |-> <<"5", "B", "8", "e", "f", "F", "0", "a">>[(i % 8) + 1]])
TraceIdValues ==
  {Undef, ZeroTraceId, OneAt(32), HexId(32), Str(Rep("0", 31)), ZeroSpanId, Str(<<>>),
   Num(0), Null}
SpanIdValues == {Undef, ZeroSpanId, OneAt(16), Str(Rep("0", 17)), Num(0)}
Link(traceId, spanId) == Fields([traceId |-> traceId, spanId |-> spanId])
LinksValues ==
  {Undef, Null, Arr(<<>>),
   Arr(<<Link(ZeroTraceId, ZeroSpanId)>>),
   Arr(<<Link(ZeroTraceId, OneAt(16)), Link(HexId(32), ZeroSpanId)>>),
   Arr(<<Link(Undef, Undef), Link(ZeroTraceId, Undef)>>),
   Arr(<<Link(ZeroSpanId, ZeroTraceId)>>),
   Arr(<<Num(1), Link(ZeroTraceId, ZeroSpanId)>>),
   Arr(<<Link(ZeroTraceId, ZeroSpanId), Null>>)}
IdSpans ==
  {Fields([traceId |-> t, spanId |-> sp, links |-> l]) :
     t \in TraceIdValues, sp \in SpanIdValues, l \in LinksValues}

\* timestamps: the start time from which a span is in the future at Clock0
FutureEdge == BigAdd(NowNano(Clock0), GraceNanos)
U64Max == Str(DigitsToChars(<<1, 8, 4, 4, 6, 7, 4, 4, 0, 7, 3, 7, 0, 9, 5, 5, 1, 6, 1, 5>>))
TwoTo64 == Str(DigitsToChars(<<1, 8, 4, 4, 6, 7, 4, 4, 0, 7, 3, 7, 0, 9, 5, 5, 1, 6, 1, 6>>))
TimeValues ==
  {Undef, Dec(0), Dec(100), Dec(200), BigStr(FutureEdge),
   BigStr(BigAdd(FutureEdge, BigOfNat(1))), U64Max, TwoTo64,
   Str(<<>>), Str(<<"-", "1">>), Str(<<" ", "7", " ">>), Str(<<"0", "x", "1", "0">>),
   Str(<<"1", ".", "5">>), Str(<<"a", "b", "c">>),
   Num(150), NumHalf(150), Bool(TRUE), Null, Arr(<<>>), EmptyObj}
TimeSpans ==
  {Fields([startTimeUnixNano |-> a, endTimeUnixNano |-> b]) :
     a \in TimeValues, b \in TimeValues}
Event(time) == Fields([timeUnixNano |-> time])
EventsValues ==
  {Num(1), Arr(<<>>), Arr(<<Event(Dec(100))>>), Arr(<<Event(Dec(0))>>),
   Arr(<<Event(Dec(0)), Event(U64Max)>>), Arr(<<Event(Str(<<"a", "b", "c">>)), Event(Undef)>>),
   Arr(<<Str(<<"x">>), Event(Dec(0))>>), Arr(<<Event(Dec(0)), Null>>)}
EventSpans ==
  {Fields([startTimeUnixNano |-> a, endTimeUnixNano |-> b, events |-> e]) :
     a \in {Undef, Dec(100), Str(<<"a", "b", "c">>)}, b \in {Undef, Dec(200)},
     e \in EventsValues}

\* structural violations
KeyValue(key, value) == Fields([key |-> key, value |-> value])
BadSpans ==
  {Num(5), Str(<<"x">>), Arr(<<>>), EmptyObj,
   Obj([kind |-> Str(<<"S", "E", "R", "V", "E", "R">>)]),
   Obj([kind |-> Num(6)]), Obj([kind |-> NumHalf(1)]), Obj([kind |-> Num(2)]),
   Obj([status |-> Obj([code |-> Num(3)]), name |-> Num(1)]),
   Obj([traceId |-> ZeroTraceId, kind |-> Num(-1), droppedLinksCount |-> Num(-1)]),
   Obj([attributes |-> Arr(<<KeyValue(Undef, Undef), KeyValue(Num(1), Obj([intValue |-> Bool(TRUE)]))>>)]),
   Obj([attributes |-> Arr(<<KeyValue(Str(<<"k">>), Obj([stringValue |-> Str(<<"v">>)]))>>),
        unknownField |-> Num(1)])}

\* one record or more per scope container
CoreSpans ==
  {Null, EmptyObj, Obj([traceId |-> ZeroTraceId, spanId |-> ZeroSpanId]),
   Obj([kind |-> Str(<<"S", "E", "R", "V", "E", "R">>)]),
   Obj([startTimeUnixNano |-> U64Max, endTimeUnixNano |-> Dec(100), spanId |-> Num(0)])}
SpanLists == SeqsUpTo(CoreSpans, MaxSpans)

\* the levels above the records
ScopeSpansValues ==
  {Undef, Null, Num(1), Arr(<<>>), Arr(<<Null>>), Arr(<<Num(1)>>), Arr(<<EmptyObj>>),
   Arr(<<Obj([spans |-> Null])>>), Arr(<<Obj([spans |-> EmptyObj])>>),
   Arr(<<Obj([spans |-> Arr(<<Obj([traceId |-> ZeroTraceId])>>), scope |-> Num(1)]),
         Obj([spans |-> Arr(<<Obj([spanId |-> ZeroSpanId])>>)])>>)}
Containers ==
  {Null, Num(1)} \cup
  {Fields([scopeSpans |-> ss, resource |-> r]) :
     ss \in ScopeSpansValues, r \in {Undef, Obj([droppedAttributesCount |-> NumHalf(0)])}}
\* the containers that documents of several resource containers are built from
CoreContainers ==
  {Null, Num(1), Obj([resource |-> Obj([droppedAttributesCount |-> NumHalf(0)])])} \cup
  {Obj([scopeSpans |-> ss]) :
     ss \in {Arr(<<>>), Arr(<<Null>>),
             Arr(<<Obj([spans |-> Arr(<<Obj([traceId |-> ZeroTraceId])>>), scope |-> Num(1)]),
                   Obj([spans |-> Arr(<<Obj([spanId |-> ZeroSpanId])>>)])>>)}}
ContainerDocs ==
  {Obj([resourceSpans |-> Arr(<<c>>)]) : c \in Containers}
    \cup {Obj([resourceSpans |-> Arr(cs)]) : cs \in SeqsUpTo(CoreContainers, MaxContainers)}

TracesDocs ==
  {TracesOf(<<sp>>) : sp \in IdSpans \cup TimeSpans \cup EventSpans \cup BadSpans}
    \cup {TracesOf(sps) : sps \in SpanLists}
    \cup ContainerDocs

\* a logs document with one resource container and one scope container
LogsOf(logRecords) ==
  Obj([resourceLogs |-> Arr(<<Obj([scopeLogs |-> Arr(<<Obj([logRecords |-> Arr(logRecords)])>>)])>>)])
LogRecords ==
  {Null, Num(1), EmptyObj,
   Obj([severityNumber |-> Num(9), severityText |-> Num(5)]),
   Obj([severityNumber |-> Num(9), severityText |-> Str(<<"i", "n", "f", "o", "2">>)]),
   Obj([severityNumber |-> Num(9), severityText |-> Str(<<"W", "A", "R", "N">>)]),
   Obj([severityNumber |-> Num(25), severityText |-> Str(<<"W", "A", "R", "N">>)]),
   Obj([severityNumber |-> Str(<<"9">>), severityText |-> Arr(<<>>)]),
   Obj([body |-> Obj([stringValue |-> Str(<<"m">>)]), traceId |-> ZeroTraceId,
        spanId |-> ZeroSpanId]),
   Obj([body |-> Num(1), timeUnixNano |-> Dec(200), observedTimeUnixNano |-> Dec(100)]),
   Obj([body |-> EmptyObj, timeUnixNano |-> Num(200), observedTimeUnixNano |-> Str(<<>>)])}
\* severity numbers at the edges of every band, and texts in several spellings
SeverityNumbers == {0, 1, 4, 5, 8, 9, 12, 13, 16, 17, 20, 21, 24}
SeverityTexts ==
  {<<"u", "n", "s", "p", "e", "c", "i", "f", "i", "e", "d">>, <<"T", "r", "a", "c", "e">>,
   <<"D", "E", "B", "U", "G", "3">>, <<"i", "n", "f", "o", "2">>, <<"I", "N", "F">>,
   <<" ", "I", "N", "F", "O">>, <<"W", "a", "r", "n">>, <<"E", "R", "R", "O", "R">>,
   <<"f", "a", "t", "a", "l", "4">>, <<"x">>, <<>>}
SeverityRecords ==
  {Obj([severityNumber |-> Num(n), severityText |-> Str(t)]) :
     n \in SeverityNumbers, t \in SeverityTexts}
LogsDocs ==
  {LogsOf(<<l>>) : l \in LogRecords \cup SeverityRecords}
    \cup {Obj([resourceLogs |-> Arr(<<c>>)]) :
            c \in {Null, Num(1), EmptyObj, Obj([scopeLogs |-> Arr(<<Null>>)]),
                   Obj([scopeLogs |-> Arr(<<Obj([logRecords |-> Num(1)])>>)])}}

\* a metrics document with one resource container and one scope container
MetricsOf(metrics) ==
  Obj([resourceMetrics |->
         Arr(<<Obj([scopeMetrics |-> Arr(<<Obj([metrics |-> Arr(metrics)])>>)])>>)])
\* the five data-shape fields, each absent, null or an object
VariantValues == {Undef, Null, EmptyObj}
VariantMetrics ==
  {Fields([gauge |-> g, sum |-> su, histogram |-> h, exponentialHistogram |-> e,
           summary |-> sm, name |-> Str(<<"m">>)]) :
     g \in VariantValues, su \in VariantValues, h \in VariantValues, e \in VariantValues,
     sm \in VariantValues}
\* histogram data points
BucketCountsValues ==
  {Undef, Null, Num(0), Num(5), Bool(TRUE), Str(<<"a", "b">>), Obj([length |-> Num(3)]),
   Arr(<<>>), Arr(<<Str(<<"1">>)>>), Arr(<<Num(1), Num(2)>>), Arr(<<Num(1), Num(2), Num(3)>>)}
ExplicitBoundsValues ==
  {Undef, Null, Num(2), Str(<<"a">>), EmptyObj,
   Arr(<<>>), Arr(<<Num(10)>>), Arr(<<Num(10), Num(20)>>), Arr(<<Num(5), Num(3), Num(10)>>),
   Arr(<<Num(5), Num(5)>>), Arr(<<Num(5), Num(3), Num(1)>>),
   Arr(<<Num(1), NumHalf(1), Num(2)>>),
   Arr(<<Str(<<"1", "0">>), Str(<<"9">>)>>), Arr(<<Null, Num(0)>>)}
HistogramPoints ==
  {Fields([bucketCounts |-> bc, explicitBounds |-> eb]) :
     bc \in BucketCountsValues, eb \in ExplicitBoundsValues}
PointsIn(points) == Obj([dataPoints |-> Arr(points)])
HistogramMetrics ==
  {Obj([histogram |-> PointsIn(<<dp>>)]) : dp \in HistogramPoints}
    \cup {Fields([gauge |-> g, sum |-> su,
                  histogram |-> PointsIn(<<Obj([bucketCounts |-> Arr(<<Num(1), Num(2)>>),
                                                explicitBounds |-> Arr(<<Num(10), Num(20)>>)]),
                                           Obj([bucketCounts |-> Arr(<<Num(1), Num(2), Num(3)>>),
                                                explicitBounds |-> Arr(<<Num(10), Num(20)>>)])>>)]) :
            g \in {Undef, Null, PointsIn(<<EmptyObj>>)}, su \in {Undef, EmptyObj}}
\* data points of the other variants, the sum flags, exemplars, malformed elements
OtherMetrics ==
  {Null, Num(1), Str(<<"x">>), Arr(<<>>),
   Obj([undefined |-> PointsIn(<<Obj([startTimeUnixNano |-> Dec(200), timeUnixNano |-> Dec(100)])>>)]),
   Obj([gauge |-> PointsIn(<<Null>>)]),
   Obj([gauge |-> EmptyObj,
        histogram |-> PointsIn(<<Obj([explicitBounds |-> Arr(<<Num(5), Num(3), Num(10)>>)])>>)]),
   Obj([gauge |-> Obj([dataPoints |-> Num(1)])]),
   Obj([gauge |-> PointsIn(<<Obj([startTimeUnixNano |-> Dec(200), timeUnixNano |-> Dec(100)]),
                             Obj([startTimeUnixNano |-> Dec(100), timeUnixNano |-> Dec(200),
                                  asInt |-> Bool(TRUE)])>>)]),
   Obj([summary |-> PointsIn(<<Obj([startTimeUnixNano |-> Str(<<>>), timeUnixNano |-> Str(<<"-", "1">>),
                                    exemplars |-> Arr(<<Obj([traceId |-> ZeroTraceId,
                                                             spanId |-> ZeroSpanId])>>)])>>)]),
   Obj([gauge |-> PointsIn(<<Obj([exemplars |-> Arr(<<Null>>)])>>)]),
   Obj([sum |-> Obj([isMonotonic |-> Bool(TRUE), aggregationTemporality |-> Num(1)])]),
   Obj([sum |-> Obj([isMonotonic |-> Bool(TRUE), aggregationTemporality |-> Num(2),
                     dataPoints |-> Arr(<<EmptyObj>>)])]),
   Obj([sum |-> Obj([isMonotonic |-> Num(1), aggregationTemporality |-> Str(<<"1">>)])])}
\* data points with a start time and a time, under each of the five variants
PointTimeValues ==
  {Undef, Dec(100), Dec(200), U64Max, Num(150), NumHalf(150), Str(<<>>), Str(<<"a", "b", "c">>)}
TimedPoints ==
  {Fields([startTimeUnixNano |-> a, timeUnixNano |-> b]) :
     a \in PointTimeValues, b \in PointTimeValues}
TimedMetrics ==
  {Obj([k \in {dt} |-> PointsIn(<<dp>>)]) : dt \in Range(METRIC_DATA_TYPES), dp \in TimedPoints}
    \cup {Obj([gauge |-> PointsIn(<<a>>), summary |-> PointsIn(<<b>>)]) :
            a \in {Obj([startTimeUnixNano |-> Dec(100), timeUnixNano |-> Dec(200)]),
                    Obj([startTimeUnixNano |-> Dec(200), timeUnixNano |-> Dec(100)])},
            b \in {Obj([startTimeUnixNano |-> Dec(200), timeUnixNano |-> Dec(100)])}}
\* data points with up to two exemplars, under a gauge, under a histogram,
\* and under a sum that stands behind a populated gauge
ExemplarValues ==
  {EmptyObj, Obj([traceId |-> ZeroTraceId, spanId |-> ZeroSpanId]),
   Obj([traceId |-> ZeroTraceId]), Obj([traceId |-> HexId(32), spanId |-> ZeroSpanId]),
   Obj([traceId |-> HexId(32), spanId |-> HexId(16)])}
ExemplarMetrics ==
  {Obj([k \in {dt} |-> PointsIn(<<Obj([exemplars |-> Arr(exs)])>>)]) :
     dt \in {"gauge", "histogram"}, exs \in SeqsUpTo(ExemplarValues, 2)}
    \cup {Obj([gauge |-> PointsIn(<<EmptyObj>>),
                sum |-> PointsIn(<<Obj([exemplars |-> Arr(<<ex>>)])>>)]) : ex \in ExemplarValues}
\* sums with every combination of the two flags, alone and behind a gauge
SumMetrics ==
  {Fields([gauge |-> g,
           sum |-> Fields([isMonotonic |-> m, aggregationTemporality |-> a,
                           dataPoints |-> Arr(<<>>)])]) :
     g \in {Undef, PointsIn(<<>>)},
     m \in {Undef, Bool(TRUE), Bool(FALSE), Num(1), Str(<<"t", "r", "u", "e">>)},
     a \in {Undef, Num(0), Num(1), Num(2), Str(<<"1">>)}}
\* metrics with two populated variants, each holding the same faulty data
\* point, and a monotonic DELTA sum before or behind another variant
FaultyPoint ==
  Obj([startTimeUnixNano |-> Dec(200), timeUnixNano |-> Dec(100),
       bucketCounts |-> Arr(<<Num(1)>>), explicitBounds |-> Arr(<<Num(5), Num(3)>>),
       exemplars |-> Arr(<<Obj([traceId |-> ZeroTraceId, spanId |-> ZeroSpanId])>>)])
FaultySum ==
  Obj([isMonotonic |-> Bool(TRUE), aggregationTemporality |-> Num(1),
       dataPoints |-> Arr(<<FaultyPoint>>)])
ShadowedMetrics ==
  {Obj([k \in {a, b} |-> IF k = "sum" THEN FaultySum ELSE PointsIn(<<FaultyPoint>>)]) :
     a \in {"gauge", "sum", "histogram"}, b \in {"sum", "histogram", "summary"}}
MetricsDocs ==
  {MetricsOf(<<m>>) :
     m \in VariantMetrics \cup HistogramMetrics \cup OtherMetrics \cup TimedMetrics
            \cup ExemplarMetrics \cup SumMetrics \cup ShadowedMetrics}
    \cup {MetricsOf(<<m1, m2>>) :
            m1 \in {EmptyObj, Null, Obj([gauge |-> EmptyObj, sum |-> EmptyObj])},
            m2 \in {EmptyObj, Obj([summary |-> EmptyObj, histogram |-> Null]),
                    Obj([gauge |-> EmptyObj])}}
    \cup {Obj([resourceMetrics |-> Arr(<<c>>)]) :
            c \in {Null, Num(1), EmptyObj, Obj([scopeMetrics |-> Arr(<<Null>>)]),
                   Obj([scopeMetrics |-> Arr(<<Obj([metrics |-> Num(1)])>>)])}}

\* documents that hold one value at one field of the first record: a field
\* is named by the record array it belongs to and by the steps from the
\* record to the field, "0" standing for the first element of an array
RECURSIVE Nest(_, _)
Nest(steps, v) ==
  IF steps = <<>> THEN v
  ELSE IF steps[1] = "0" THEN Arr(<<Nest(Tail(steps), v)>>)
  ELSE Obj([k \in {steps[1]} |-> Nest(Tail(steps), v)])
RecordSteps(top) ==
  CASE top = "resourceSpans" -> <<"resourceSpans", "0", "scopeSpans", "0", "spans", "0">>
    [] top = "resourceLogs" -> <<"resourceLogs", "0", "scopeLogs", "0", "logRecords", "0">>
    [] OTHER -> <<"resourceMetrics", "0", "scopeMetrics", "0", "metrics", "0">>
FieldDocs(fields, values) ==
  {Nest(RecordSteps(f[1]) \o f[2], v) : f \in fields, v \in values}
\* the 64-bit integer fields
PointInt64Fields(variant, names) ==
  {<<"resourceMetrics", <<variant, "dataPoints", "0">> \o n>> : n \in names}
Int64Fields ==
  {<<"resourceSpans", f>> :
     f \in {<<"startTimeUnixNano">>, <<"endTimeUnixNano">>, <<"events", "0", "timeUnixNano">>,
            <<"attributes", "0", "value", "intValue">>}}
    \cup {<<"resourceLogs", f>> :
            f \in {<<"timeUnixNano">>, <<"observedTimeUnixNano">>, <<"body", "intValue">>}}
    \cup PointInt64Fields("gauge", {<<"startTimeUnixNano">>, <<"timeUnixNano">>, <<"asInt">>,
                                     <<"exemplars", "0", "asInt">>,
                                     <<"exemplars", "0", "timeUnixNano">>})
    \cup PointInt64Fields("sum", {<<"timeUnixNano">>, <<"asInt">>})
    \cup PointInt64Fields("histogram", {<<"startTimeUnixNano">>, <<"count">>,
                                         <<"bucketCounts", "0">>})
    \cup PointInt64Fields("exponentialHistogram",
                           {<<"timeUnixNano">>, <<"count">>, <<"zeroCount">>,
                            <<"positive", "bucketCounts", "0">>,
                            <<"negative", "bucketCounts", "0">>})
    \cup PointInt64Fields("summary", {<<"startTimeUnixNano">>, <<"count">>})
Int64Values ==
  {Dec(7), Num(7), Num(0), NumHalf(7), Str(<<"a", "b", "c">>), Str(<<>>), Bool(TRUE), Null,
   EmptyObj, Arr(<<>>)}
Int64Docs == FieldDocs(Int64Fields, Int64Values)

\* the enum fields, each with the largest value of its range
EnumFields ==
  {<<"resourceSpans", <<"kind">>, 5>>, <<"resourceSpans", <<"status", "code">>, 2>>,
   <<"resourceLogs", <<"severityNumber">>, 24>>}
    \cup {<<"resourceMetrics", <<variant, "aggregationTemporality">>, 2>> :
            variant \in {"sum", "histogram", "exponentialHistogram"}}
EnumValues(hi) ==
  {Num(n) : n \in {-1, 0, 1, hi, hi + 1}}
    \cup {NumHalf(1), Str(<<"S", "E", "R", "V", "E", "R">>), Str(<<"1">>), Bool(TRUE), Null}
EnumDocs == UNION {FieldDocs({f}, EnumValues(f[3])) : f \in EnumFields}

\* the identifier fields, each with its number of hex characters
IdFields ==
  {<<"resourceSpans", <<"traceId">>, 32>>, <<"resourceSpans", <<"spanId">>, 16>>,
   <<"resourceSpans", <<"parentSpanId">>, 16>>,
   <<"resourceSpans", <<"links", "0", "traceId">>, 32>>,
   <<"resourceSpans", <<"links", "0", "spanId">>, 16>>,
   <<"resourceLogs", <<"traceId">>, 32>>, <<"resourceLogs", <<"spanId">>, 16>>}
    \cup UNION {{<<"resourceMetrics", <<variant, "dataPoints", "0", "exemplars", "0", "traceId">>, 32>>,
                 <<"resourceMetrics", <<variant, "dataPoints", "0", "exemplars", "0", "spanId">>, 16>>} :
                  variant \in {"gauge", "histogram"}}
MixedHex(n) == [i \in 1..n |-> <<"a", "B", "3", "F", "0", "e">>[(i % 6) + 1]]
IdValues(n) ==
  {Str(MixedHex(n)), Str(Rep("0", n)), Str(Rep("f", n)), Str(Rep("C", n)),
   Str(MixedHex(n - 1)), Str(MixedHex(n + 1)), Str(Rep("0", 48 - n)),
   Str(MixedHex(n - 1) \o <<"g">>), Str(<<"-">> \o MixedHex(n - 1)), Str(<<>>),
   Num(0), Null, Bool(FALSE), EmptyObj, Arr(<<>>)}
IdDocs == UNION {FieldDocs({f}, IdValues(f[3])) : f \in IdFields}

\* documents that come in pairs: a document with every level populated and
\* the same document with one more field, of a name the schema of the level
\* does not declare, added at one level
NoField == [k \in {} |-> Null]
FieldAt(level, at, name, v) == IF level = at THEN name :> v ELSE NoField
LevelAnyValue(at, name, v) ==
  Obj(FieldAt("anyValue", at, name, v) @@ ("stringValue" :> Str(<<"v">>)))
LevelAttributes(at, name, v) ==
  Arr(<<Obj(FieldAt("attribute", at, name, v) @@ ("key" :> Str(<<"k">>))
              @@ ("value" :> LevelAnyValue(at, name, v)))>>)
LevelPoint(at, name, v) ==
  Obj(FieldAt("point", at, name, v) @@ ("attributes" :> LevelAttributes(at, name, v)))
LevelKeys(kind) ==
  CASE kind = "traces" -> <<"resourceSpans", "scopeSpans", "spans">>
    [] kind = "logs" -> <<"resourceLogs", "scopeLogs", "logRecords">>
    [] OTHER -> <<"resourceMetrics", "scopeMetrics", "metrics">>
LevelBodies == {"plain", "flawed", "summary"}
LevelRecord(kind, body, at, name, v) ==
  CASE kind = "traces" ->
         Obj(FieldAt("record", at, name, v) @@ ("name" :> Str(<<"s">>))
               @@ ("attributes" :> LevelAttributes(at, name, v))
               @@ (IF body = "plain" THEN NoField ELSE "spanId" :> ZeroSpanId))
    [] kind = "logs" ->
         Obj(FieldAt("record", at, name, v) @@ ("body" :> LevelAnyValue(at, name, v))
               @@ ("attributes" :> LevelAttributes(at, name, v))
               @@ (IF body = "plain" THEN NoField ELSE "severityNumber" :> Str(<<"9">>)))
    [] OTHER ->
         Obj(FieldAt("record", at, name, v) @@ ("name" :> Str(<<"m">>))
               @@ (CASE body = "plain" ->
                          "gauge" :> Obj("dataPoints" :> Arr(<<LevelPoint(at, name, v)>>))
                     [] body = "summary" ->
                          "summary" :> Obj("dataPoints" :> Arr(<<LevelPoint(at, name, v)>>))
                     [] OTHER -> NoField))
LevelDoc(kind, body, at, name, v) ==
  Obj(FieldAt("top", at, name, v)
        @@ (LevelKeys(kind)[1] :>
              Arr(<<Obj(FieldAt("resourceContainer", at, name, v)
                          @@ ("resource" :>
                                Obj(FieldAt("resource", at, name, v)
                                      @@ ("attributes" :> LevelAttributes(at, name, v))))
                          @@ (LevelKeys(kind)[2] :>
                                Arr(<<Obj(FieldAt("scopeContainer", at, name, v)
                                            @@ ("scope" :>
                                                  Obj(FieldAt("scope", at, name, v)
                                                        @@ ("name" :> Str(<<"lib">>))))
                                            @@ (LevelKeys(kind)[3] :>
                                                  Arr(<<LevelRecord(kind, body, at, name, v)>>)))>>)))>>)))
Levels ==
  {"top", "resourceContainer", "resource", "scopeContainer", "scope", "record", "attribute",
   "anyValue"}
UnknownValues ==
  {Num(1), Null, Str(<<"x">>), EmptyObj,
   PointsIn(<<Obj([startTimeUnixNano |-> Dec(5), timeUnixNano |-> Dec(1)])>>),
   PointsIn(<<Null>>),
   Arr(<<Obj([traceId |-> ZeroTraceId])>>), Arr(<<Null>>)}
\* the name of the added field: one no part of the program reads, and
\* "undefined", the key that metric[presentDataTypes[0]] reads of a metric
\* without a populated variant
UnknownNames == {"extra", "undefined"}
\* <<document, document with the field added>>
UnknownFieldPairs ==
  {<<LevelDoc(kind, body, "none", name, v), LevelDoc(kind, body, at, name, v)>> :
     kind \in {"traces", "logs", "metrics"}, body \in LevelBodies,
     at \in Levels \cup {"point"}, name \in UnknownNames, v \in UnknownValues}
    \* summaryDataPointDef declares no exemplars
    \cup {<<LevelDoc("metrics", "summary", "none", "exemplars", v),
            LevelDoc("metrics", "summary", "point", "exemplars", v)>> : v \in UnknownValues}
LevelDocs == UNION {{pair[1], pair[2]} : pair \in UnknownFieldPairs}

\* records with a timestamp BigInt() rejects next to what the other checks
\* of the record and of the next record report
GarbledTimes == {Str(<<"a", "b", "c">>), Str(<<"1", ".", "5">>), NumHalf(150), Null, EmptyObj}
GarbledDocs ==
  UNION {{TracesOf(<<Obj([spanId |-> ZeroSpanId, startTimeUnixNano |-> a, endTimeUnixNano |-> b,
                   events |-> Arr(<<Event(g), Event(Dec(300))>>),
                   links |-> Arr(<<Link(ZeroTraceId, ZeroSpanId)>>)]),
              Obj([startTimeUnixNano |-> Dec(200), endTimeUnixNano |-> Dec(100)])>>) :
     a \in {g, Dec(100)}, b \in {g, Dec(200)}}
    \cup {LogsOf(<<Obj([traceId |-> ZeroTraceId, timeUnixNano |-> a, observedTimeUnixNano |-> b,
                        severityNumber |-> Num(9),
                        severityText |-> Str(<<"W", "A", "R", "N">>)]),
                   Obj([timeUnixNano |-> Dec(200), observedTimeUnixNano |-> Dec(100)])>>) :
            a \in {g, Dec(200)}, b \in {g, Dec(100)}}
    \cup {MetricsOf(<<Obj([histogram |->
                             PointsIn(<<Obj([startTimeUnixNano |-> a, timeUnixNano |-> b,
                                             explicitBounds |-> Arr(<<Num(5), Num(3)>>),
                                             exemplars |-> Arr(<<Obj([spanId |-> ZeroSpanId])>>)]),
                                        Obj([startTimeUnixNano |-> Dec(200),
                                             timeUnixNano |-> Dec(100)])>>)])>>) :
            a \in {g, Dec(200)}, b \in {g, Dec(100)}} : g \in GarbledTimes}

Payloads ==
  TopLevelDocs \cup OtherDocs \cup TracesDocs \cup LogsDocs \cup MetricsDocs \cup Int64Docs
    \cup EnumDocs \cup IdDocs \cup LevelDocs \cup GarbledDocs

(***************************************************************************)
(* State: the clock, the document of the last call of validateOTLPPayload, *)
(* what the call came to and the functions it ran; a document and result   *)
(* the caller kept from an earlier call; the request the POST handler last *)
(* served and its response.                                                *)
(***************************************************************************)
VARIABLES clock, payload, result, calls, prior, request, response
vars == <<clock, payload, result, calls, prior, request, response>>

\* nothing kept, no request served
NoPrior == [payload |-> Undef, result |-> NotCalled, clock |-> 0]
NoRequest == [contentType |-> Null, body |-> Text(<<>>, Undef, <<>>), broken |-> FALSE]
NoResponse == [status |-> 0, body |-> Undef]

Init ==
  /\ clock = 0
  /\ payload = Undef
  /\ result = NotCalled
  /\ calls = <<>>
  /\ prior = NoPrior
  /\ request = NoRequest
  /\ response = NoResponse

\* a call validateOTLPPayload(p)
Validate(p) ==
  /\ result.status = "idle"
  /\ payload' = p
  /\ result' = validateOTLPPayload(p, DateNow(clock))
  /\ calls' = Calls(p)
  /\ UNCHANGED <<clock, prior, request, response>>

\* the caller is done with the result (or the exception) of the call
Discard ==
  /\ result.status # "idle"
  /\ payload' = Undef
  /\ result' = NotCalled
  /\ calls' = <<>>
  /\ UNCHANGED <<clock, prior, request, response>>

\* time passes between calls
Tick ==
  /\ result.status = "idle"
  /\ clock < MaxClock
  /\ clock' = clock + 1
  /\ UNCHANGED <<payload, result, calls, prior, request, response>>

Next ==
  \/ \E p \in Payloads : Validate(p)
  \/ Discard
  \/ Tick

Spec == Init /\ [][Next]_vars

\* the caller keeps the document and the result of the call, to compare them
\* with a later call
Keep ==
  /\ result.status # "idle"
  /\ prior' = [payload |-> payload, result |-> result, clock |-> clock]
  /\ payload' = Undef
  /\ result' = NotCalled
  /\ calls' = <<>>
  /\ UNCHANGED <<clock, request, response>>

\* documents validated again and again: spans that lie in the future at some
\* readings of the clock, records with errors and warnings, a document the
\* traces checker throws on
RevalidateDocs ==
  {Null, Obj([resourceSpans |-> Arr(<<Null>>)]),
   TracesOf(<<Obj([startTimeUnixNano |-> BigStr(BigAdd(FutureEdge, BigOfNat(1))),
                   endTimeUnixNano |-> U64Max])>>),
   TracesOf(<<Obj([startTimeUnixNano |-> BigStr(BigAdd(FutureEdge, BigOfNat(1000001))),
                   endTimeUnixNano |-> Dec(0), spanId |-> ZeroSpanId])>>),
   TracesOf(<<Obj([startTimeUnixNano |-> U64Max, endTimeUnixNano |-> U64Max]),
              Obj([kind |-> Num(9)])>>),
   TracesOf(<<Obj([startTimeUnixNano |-> Dec(100), endTimeUnixNano |-> Dec(200)])>>),
   LogsOf(<<Obj([severityNumber |-> Num(9), severityText |-> Str(<<"W", "A", "R", "N">>)])>>),
   MetricsOf(<<Obj([sum |-> Obj([isMonotonic |-> Bool(TRUE), aggregationTemporality |-> Num(1)]),
                    gauge |-> EmptyObj])>>)}

RevalidateNext ==
  \/ \E p \in RevalidateDocs : Validate(p)
  \/ Keep
  \/ Discard
  \/ Tick

RevalidateSpec == Init /\ [][RevalidateNext]_vars

\* the POST handler serves a request: one step from the request to the response
Serve(req, served) ==
  /\ request' = req
  /\ payload' = served.payload
  /\ result' = served.result
  /\ calls' = served.calls
  /\ response' = served.response
  /\ UNCHANGED <<clock, prior>>
POST(req) ==
  /\ result.status = "idle" /\ response = NoResponse
  /\ Serve(req, Handled(req, HeaderOrEmpty(req), DateNow(clock)))

\* the client has the response
Reply ==
  /\ response # NoResponse
  /\ request' = NoRequest
  /\ response' = NoResponse
  /\ payload' = Undef
  /\ result' = NotCalled
  /\ calls' = <<>>
  /\ UNCHANGED <<clock, prior>>

\* requests: Content-Type headers, bodies, and bodies that cannot be read
ContentTypes ==
  {Null, Str(<<>>), Str(ApplicationJson), Str(ApplicationJson \o <<";", " ", "c", "h", "a", "r", "s", "e", "t", "=", "u", "t", "f", "-", "8">>),
   Str(<<"A", "p", "p", "l", "i", "c", "a", "t", "i", "o", "n", "/", "J", "S", "O", "N">>), Str(<<"t", "e", "x", "t", "/", "p", "l", "a", "i", "n">>),
   Str(ApplicationXProtobuf), Str(ApplicationProtobuf)}
BodyDocs ==
  {Null, Num(7), EmptyObj, Obj([resourceSpans |-> Arr(<<>>)]), Obj([resourceLogs |-> Arr(<<>>)]),
   Obj([resourceSpans |-> Num(1)]), Obj([resourceSpans |-> Arr(<<Null>>)]),
   TracesOf(<<Obj([kind |-> Str(<<"S", "E", "R", "V", "E", "R">>)])>>),
   TracesOf(<<Obj([startTimeUnixNano |-> BigStr(BigAdd(FutureEdge, BigOfNat(1))),
                   endTimeUnixNano |-> U64Max])>>),
   TracesOf(<<Obj([startTimeUnixNano |-> U64Max, endTimeUnixNano |-> U64Max,
                   spanId |-> ZeroSpanId])>>),
   LogsOf(<<Obj([severityNumber |-> Num(9), severityText |-> Str(<<"W", "A", "R", "N">>)])>>),
   LogsOf(<<Obj([severityNumber |-> Num(9), severityText |-> Num(5)])>>),
   MetricsOf(<<Obj([sum |-> Obj([isMonotonic |-> Bool(TRUE), aggregationTemporality |-> Num(1)])])>>),
   MetricsOf(<<EmptyObj>>)}
Bodies ==
  {Text(<<>>, d, <<>>) : d \in BodyDocs}
    \cup {Text(lead, d, trail) :
            lead \in {<<>>, <<" ", "\n">>, <<"\f">>}, d \in {Undef, EmptyObj},
            trail \in {<<>>, <<"\r", "\t">>, <<"\f">>, <<"}">>}}
Requests ==
  {[contentType |-> ct, body |-> b, broken |-> FALSE] : ct \in ContentTypes, b \in Bodies}
    \cup {[contentType |-> ct, body |-> Text(<<>>, EmptyObj, <<>>), broken |-> TRUE] :
            ct \in ContentTypes}

ApiNext ==
  \/ \E req \in Requests : POST(req)
  \/ Reply
  \/ Tick

ApiSpec == Init /\ [][ApiNext]_vars

(***************************************************************************)
(* Properties.  They read the document of the call and the result the call *)
(* left in the state; what the document should give is computed here from  *)
(* the document itself, not by the engine's operators.                     *)
(***************************************************************************)
SignalFields == {"resourceSpans", "resourceLogs", "resourceMetrics"}
\* the recognised top-level fields of p that hold an array
ArrayFields(p) ==
  IF p.t = "obj" THEN {k \in SignalFields \cap DOMAIN p.o : p.o[k].t = "arr"} ELSE {}
\* the elements of the array p.k, none when p.k is not an array
Elems(p, k) == IF p.t = "obj" /\ k \in DOMAIN p.o /\ p.o[k].t = "arr" THEN p.o[k].a ELSE <<>>
\* the records of a document, as index triples (resource, scope, record)
Sites(p, top, mid, leaf) ==
  UNION {UNION {{<<r, sc, k>> : k \in DOMAIN Elems(Elems(Elems(p, top)[r], mid)[sc], leaf)} :
                  sc \in DOMAIN Elems(Elems(p, top)[r], mid)} :
           r \in DOMAIN Elems(p, top)}
RecordAt(p, top, mid, leaf, site) ==
  Elems(Elems(Elems(p, top)[site[1]], mid)[site[2]], leaf)[site[3]]
SitePath(top, mid, leaf, site) ==
  "/" \o top \o "/" \o ToString(site[1] - 1) \o "/" \o mid \o "/" \o ToString(site[2] - 1)
    \o "/" \o leaf \o "/" \o ToString(site[3] - 1)
SpanSites(p) == Sites(p, "resourceSpans", "scopeSpans", "spans")
SpanAt(p, site) == RecordAt(p, "resourceSpans", "scopeSpans", "spans", site)
SpanPath(site) == SitePath("resourceSpans", "scopeSpans", "spans", site)
\* the issues of a list reported at a path
At(list, path) == {i \in DOMAIN list : list[i].path = path}
SemanticAt(path) == {i \in At(result.errors, path) : result.errors[i].keyword = "semantic"}
ResultWarnings == IF result.warnings = Undef THEN <<>> ELSE result.warnings.a
Called == result.status # "idle"
Returned_ == result.status = "returned"

\* C1: a document without an array-valued resourceSpans, resourceLogs or
\* resourceMetrics field at its top level (null, primitives and arrays
\* included) makes validateOTLPPayload return, without throwing, valid = false,
\* payloadType = null and exactly one error, whose path is empty; only the
\* detector runs and no warning is reported.
C1_UndetectedSingleError ==
  (Called /\ ArrayFields(payload) = {}) =>
    /\ result.status = "returned"
    /\ ~result.valid
    /\ result.payloadType = "null"
    /\ Len(result.errors) = 1
    /\ result.errors[1].path = ""
    /\ result.warnings = Undef
    /\ calls = <<"detectPayloadType">>
C1_Witness ==
  /\ Returned_ /\ ArrayFields(payload) = {}
  /\ payload.t = "obj" /\ DOMAIN payload.o = SignalFields
  /\ Len(result.errors) = 1

\* C2: the detected type is 'traces' if resourceSpans is an array, otherwise
\* 'logs' if resourceLogs is an array, otherwise 'metrics' if resourceMetrics
\* is an array, otherwise none; a field of one of these names that is not an
\* array does not count, and the type depends on nothing but which of the
\* three top-level fields are arrays.
C2_Expected(p) ==
  CASE "resourceSpans" \in ArrayFields(p) -> "traces"
    [] "resourceSpans" \notin ArrayFields(p) /\ "resourceLogs" \in ArrayFields(p) -> "logs"
    [] ArrayFields(p) = {"resourceMetrics"} -> "metrics"
    [] OTHER -> "null"
C2_DetectionByFirstArray ==
  Called =>
    /\ detectPayloadType(payload) = C2_Expected(payload)
    /\ Returned_ => result.payloadType = C2_Expected(payload)
C2_Witness ==
  /\ Returned_ /\ result.payloadType = "logs"
  /\ payload.t = "obj" /\ "resourceSpans" \in DOMAIN payload.o
  /\ ArrayFields(payload) = {"resourceLogs", "resourceMetrics"}

\* C3: every call on a document whose type is detected returns a
\* ValidationResult, whatever the structural outcome: it does not throw.
C3_DetectedNeverThrows ==
  (Called /\ ArrayFields(payload) # {}) => result.status = "returned"

\* C4: for a detected document the result is valid exactly when its error
\* list is empty; a structural or a semantic error makes it invalid, and
\* warnings do not.
C4_ValidIffNoErrors ==
  (Returned_ /\ result.payloadType # "null") =>
    /\ result.valid <=> (result.errors = <<>>)
    /\ result.valid <=> /\ validators(result.payloadType, payload) = <<>>
                        /\ semanticValidators(result.payloadType, payload, DateNow(clock)).errors = <<>>
C4_Witness ==
  /\ Returned_ /\ result.payloadType # "null"
  /\ result.valid /\ Len(ResultWarnings) > 0

\* C5: in the returned error list every structural error comes before
\* every semantic error; every structural violation is listed (a record of
\* kind is reported for each span whose kind is not an integer from 0 to 5),
\* the semantic errors keep the checker's order, and warnings are a list of
\* their own.
C5_Structural == SelectSeq(result.errors, LAMBDA e : e.keyword # "semantic")
C5_Semantic == SelectSeq(result.errors, LAMBDA e : e.keyword = "semantic")
C5_BadKind(span) ==
  /\ span.t = "obj" /\ "kind" \in DOMAIN span.o
  /\ ~(span.o.kind.t = "num" /\ ~span.o.kind.frac /\ span.o.kind.n \in 0..5)
C5_StructuralBeforeSemantic ==
  (Returned_ /\ result.payloadType # "null") =>
    /\ result.errors = C5_Structural \o C5_Semantic
    /\ result.payloadType = "traces" =>
         \A site \in SpanSites(payload) :
           C5_BadKind(SpanAt(payload, site)) =>
             \E i \in At(C5_Structural, SpanPath(site) \o "/kind") : TRUE
    /\ C5_Semantic = semanticValidators(result.payloadType, payload, DateNow(clock)).errors
    /\ \A i \in DOMAIN result.errors : "suggestion" \notin DOMAIN result.errors[i]
    /\ \A i \in DOMAIN ResultWarnings : "keyword" \notin DOMAIN ResultWarnings[i]
C5_Witness ==
  /\ Returned_ /\ result.payloadType = "traces"
  /\ Len(C5_Structural) >= 2 /\ Len(C5_Semantic) >= 2
  /\ \E site \in SpanSites(payload) : C5_BadKind(SpanAt(payload, site))

\* the field k of v is a string of n characters '0'
AllZero(v, k, n) == v.t = "obj" /\ k \in DOMAIN v.o /\ v.o[k] = Str([i \in 1..n |-> "0"])
ZeroOne(b) == IF b THEN 1 ELSE 0
\* C6: for every span of a traces document the result holds exactly one
\* semantic error at .../traceId when the span's traceId is 32 characters
\* '0', exactly one at .../spanId when its spanId is 16 characters '0', and
\* for each link i exactly one at .../links/i/traceId and one at
\* .../links/i/spanId under the same conditions on the link's identifiers;
\* an identifier that is absent or anything else has no such error, and a
\* result with such an error is invalid.
C6_ZeroIdentifierErrors ==
  (Returned_ /\ result.payloadType = "traces") =>
    \A site \in SpanSites(payload) :
      LET span == SpanAt(payload, site)
          path == SpanPath(site)
          links == Elems(span, "links")
          LinkPath(i) == path \o "/links/" \o ToString(i - 1)
      IN /\ Cardinality(SemanticAt(path \o "/traceId")) = ZeroOne(AllZero(span, "traceId", 32))
         /\ Cardinality(SemanticAt(path \o "/spanId")) = ZeroOne(AllZero(span, "spanId", 16))
         /\ \A i \in DOMAIN links :
              /\ Cardinality(SemanticAt(LinkPath(i) \o "/traceId"))
                   = ZeroOne(AllZero(links[i], "traceId", 32))
              /\ Cardinality(SemanticAt(LinkPath(i) \o "/spanId"))
                   = ZeroOne(AllZero(links[i], "spanId", 16))
         /\ (\/ AllZero(span, "traceId", 32) \/ AllZero(span, "spanId", 16)
             \/ \E i \in DOMAIN links :
                  AllZero(links[i], "traceId", 32) \/ AllZero(links[i], "spanId", 16))
              => ~result.valid
C6_Witness ==
  /\ Returned_ /\ result.payloadType = "traces"
  /\ \E site \in SpanSites(payload) :
       LET span == SpanAt(payload, site)
           links == Elems(span, "links")
       IN /\ AllZero(span, "traceId", 32) /\ AllZero(span, "spanId", 16)
          /\ Len(links) = 2
          /\ AllZero(links[1], "traceId", 32) /\ ~AllZero(links[1], "spanId", 16)
          /\ AllZero(links[2], "spanId", 16) /\ ~AllZero(links[2], "traceId", 32)
          /\ Cardinality(SemanticAt(SpanPath(site) \o "/links/1/spanId")) = 1
  /\ Len(C5_Semantic) = 4

\* the decimal form of an unsigned 64-bit integer: a string of decimal digits
\* (or a JSON integer) with a value of at most 2^64 - 1
DecimalDigits(v) ==
  IF v.t = "str" THEN [i \in DOMAIN v.s |-> HexVal(v.s[i])] ELSE NatDigits(v.n)
\* a < b for digit sequences, leading zeros allowed
DigitsLess(a, b) ==
  LET n == IF Len(a) > Len(b) THEN Len(a) ELSE Len(b)
      Pad(d, i) == IF i <= n - Len(d) THEN 0 ELSE d[i - (n - Len(d))]
  IN \E i \in 1..n : Pad(a, i) < Pad(b, i) /\ \A j \in 1..(i - 1) : Pad(a, j) = Pad(b, j)
IsUint64(v) ==
  /\ \/ v.t = "str" /\ v.s # <<>> /\ \A i \in DOMAIN v.s : v.s[i] \in Range(DigitChars)
     \/ v.t = "num" /\ ~v.frac /\ v.n >= 0
  /\ ~DigitsLess(DecimalDigits(U64Max), DecimalDigits(v))
\* C7: for every span with startTimeUnixNano and endTimeUnixNano present,
\* the result holds a semantic error at .../endTimeUnixNano exactly when
\* both are decimal forms of unsigned 64-bit integers and end < start; a
\* value that is no such decimal form takes no part in the comparison.
C7_EndBeforeStartAsUint64 ==
  (Returned_ /\ result.payloadType = "traces") =>
    \A site \in SpanSites(payload) :
      LET span == SpanAt(payload, site)
          start == Get(span, "startTimeUnixNano")
          end == Get(span, "endTimeUnixNano")
      IN (span.t = "obj" /\ start # Undef /\ end # Undef) =>
           (SemanticAt(SpanPath(site) \o "/endTimeUnixNano") # {}
              <=> /\ IsUint64(start) /\ IsUint64(end)
                  /\ DigitsLess(DecimalDigits(end), DecimalDigits(start)))

\* C8: for every span whose startTimeUnixNano is present and numeric, the
\* result holds a clock-skew warning at .../startTimeUnixNano exactly when
\* the start time exceeds the current time plus 60 seconds, whether or not
\* endTimeUnixNano is present or parseable, and no error at that path.
C8_FutureStartWarns ==
  (Returned_ /\ result.payloadType = "traces") =>
    \A site \in SpanSites(payload) :
      LET span == SpanAt(payload, site)
          start == Get(span, "startTimeUnixNano")
          limit == BigAdd(NowNano(DateNow(clock)), GraceNanos).mag
      IN (span.t = "obj" /\ start # Undef /\ IsUint64(start)) =>
           /\ At(ResultWarnings, SpanPath(site) \o "/startTimeUnixNano") # {}
                <=> DigitsLess(limit, DecimalDigits(start))
           /\ SemanticAt(SpanPath(site) \o "/startTimeUnixNano") = {}

MetricSites(p) == Sites(p, "resourceMetrics", "scopeMetrics", "metrics")
MetricAt(p, site) == RecordAt(p, "resourceMetrics", "scopeMetrics", "metrics", site)
MetricPath(site) == SitePath("resourceMetrics", "scopeMetrics", "metrics", site)
\* the data-shape fields a metric holds, whatever their values
Populated(metric) ==
  IF metric.t = "obj"
    THEN {"gauge", "sum", "histogram", "exponentialHistogram", "summary"} \cap DOMAIN metric.o
    ELSE {}
\* C9: for each metric the result holds exactly one semantic error at the
\* metric's path when none or more than one of gauge, sum, histogram,
\* exponentialHistogram, summary is populated, and none when exactly one
\* is; with more than one populated the message names every populated
\* variant and no other, and the message for none populated is another one.
C9_VariantCardinality ==
  (Returned_ /\ result.payloadType = "metrics") =>
    \A site \in MetricSites(payload) :
      LET populated == Populated(MetricAt(payload, site))
          errs == SemanticAt(MetricPath(site))
          Names(i) == Range(result.errors[i].message)
                        \cap {"gauge", "sum", "histogram", "exponentialHistogram", "summary"}
      IN /\ Cardinality(errs) = IF Cardinality(populated) = 1 THEN 0 ELSE 1
         /\ \A i \in errs :
              /\ Cardinality(populated) > 1 =>
                   /\ Names(i) = populated
                   /\ result.errors[i].message[1] = "Metric has multiple data types: "
              /\ populated = {} =>
                   /\ Names(i) = {}
                   /\ result.errors[i].message[1] # "Metric has multiple data types: "
         /\ Cardinality(populated) # 1 => ~result.valid
C9_Witness ==
  /\ Returned_ /\ result.payloadType = "metrics"
  /\ \E s1 \in MetricSites(payload), s2 \in MetricSites(payload) :
       /\ Populated(MetricAt(payload, s1)) = {}
       /\ Populated(MetricAt(payload, s2)) = {"histogram", "summary"}
       /\ Cardinality(SemanticAt(MetricPath(s1))) = 1
       /\ Cardinality(SemanticAt(MetricPath(s2))) = 1

\* the data points of the histogram field of a metric
HistogramPointsOf(metric) == Elems(Get(metric, "histogram"), "dataPoints")
BothArrays(dp) ==
  /\ dp.t = "obj" /\ {"bucketCounts", "explicitBounds"} \subseteq DOMAIN dp.o
  /\ dp.o.bucketCounts.t = "arr" /\ dp.o.explicitBounds.t = "arr"
BucketErrors(site, i) ==
  SemanticAt(MetricPath(site) \o "/histogram/dataPoints/" \o ToString(i - 1) \o "/bucketCounts")
BucketsMismatch(dp) == Len(dp.o.bucketCounts.a) # Len(dp.o.explicitBounds.a) + 1
\* C10 as stated: for every data point of a histogram with both bucketCounts
\* and explicitBounds the result holds exactly one error at .../bucketCounts
\* when length(bucketCounts) differs from length(explicitBounds) + 1, and
\* none when the lengths are consistent.
C10_EveryHistogramPoint ==
  (Returned_ /\ result.payloadType = "metrics") =>
    \A site \in MetricSites(payload) :
      LET points == HistogramPointsOf(MetricAt(payload, site))
      IN \A i \in DOMAIN points :
           BothArrays(points[i]) =>
             Cardinality(BucketErrors(site, i)) = ZeroOne(BucketsMismatch(points[i]))
\* C10: the checker looks at the data points of the first populated variant
\* only, in the order gauge, sum, histogram, exponentialHistogram, summary.
\* For every data point of a metric whose first populated variant is
\* histogram, with bucketCounts and explicitBounds both arrays, the result
\* holds exactly one error at .../bucketCounts when length(bucketCounts)
\* differs from length(explicitBounds) + 1 and none when the lengths are
\* consistent; the data points of a histogram that stands behind a
\* populated gauge or sum get no bucket-count error.
C10_FirstVariantHistogramPoint ==
  (Returned_ /\ result.payloadType = "metrics") =>
    \A site \in MetricSites(payload) :
      LET metric == MetricAt(payload, site)
          points == HistogramPointsOf(metric)
          first == Populated(metric) \cap {"gauge", "sum"} = {}
      IN \A i \in DOMAIN points :
           /\ (first /\ BothArrays(points[i])) =>
                Cardinality(BucketErrors(site, i)) = ZeroOne(BucketsMismatch(points[i]))
           /\ ~first => BucketErrors(site, i) = {}
C10_Witness ==
  /\ Returned_ /\ result.payloadType = "metrics"
  /\ \E site \in MetricSites(payload) :
       LET metric == MetricAt(payload, site)
           points == HistogramPointsOf(metric)
       IN /\ Populated(metric) = {"histogram"} /\ Len(points) = 2
          /\ BothArrays(points[1]) /\ BucketsMismatch(points[1])
          /\ BothArrays(points[2]) /\ ~BucketsMismatch(points[2])
          /\ Cardinality(BucketErrors(site, 1)) = 1 /\ BucketErrors(site, 2) = {}

\* twice the value of a JSON number
Twice(v) == 2 * v.n + (IF v.frac THEN 1 ELSE 0)
\* explicitBounds of a data point, when it is an array of numbers
NumericBounds(dp) ==
  /\ dp.t = "obj" /\ "explicitBounds" \in DOMAIN dp.o /\ dp.o.explicitBounds.t = "arr"
  /\ \A k \in DOMAIN dp.o.explicitBounds.a : dp.o.explicitBounds.a[k].t = "num"
\* the positions (from 0) whose bound does not exceed the bound before it
BoundsViolations(dp) ==
  LET eb == dp.o.explicitBounds.a
  IN {k \in 1..(Len(eb) - 1) : Twice(eb[k + 1]) <= Twice(eb[k])}
Least(S) == CHOOSE k \in S : \A j \in S : k <= j
BoundsErrors(site, i, k) ==
  SemanticAt(MetricPath(site) \o "/histogram/dataPoints/" \o ToString(i - 1)
               \o "/explicitBounds/" \o ToString(k))
\* what C11 asks of data point i of the histogram of the metric at site
BoundsReportedOnce(site, dp, i) ==
  \A k \in 0..Len(dp.o.explicitBounds.a) :
    Cardinality(BoundsErrors(site, i, k))
      = ZeroOne(BoundsViolations(dp) # {} /\ k = Least(BoundsViolations(dp)))
\* C11 as stated: for every data point of a histogram whose explicitBounds
\* is an array of numbers the result holds exactly one error for the bounds,
\* at .../explicitBounds/i for the smallest i >= 1 with
\* explicitBounds[i] <= explicitBounds[i-1], and none when the bounds are
\* strictly increasing.
C11_EveryHistogramPoint ==
  (Returned_ /\ result.payloadType = "metrics") =>
    \A site \in MetricSites(payload) :
      LET points == HistogramPointsOf(MetricAt(payload, site))
      IN \A i \in DOMAIN points :
           NumericBounds(points[i]) => BoundsReportedOnce(site, points[i], i)
\* C11: for every data point of a metric whose first populated variant is
\* histogram, with explicitBounds an array of numbers, the result holds
\* exactly one error for the bounds, at .../explicitBounds/i for the
\* smallest i >= 1 with explicitBounds[i] <= explicitBounds[i-1], later
\* violations being unreported, and none when the bounds are strictly
\* increasing; the data points of a histogram that stands behind a
\* populated gauge or sum get no such error.
C11_FirstViolationOnly ==
  (Returned_ /\ result.payloadType = "metrics") =>
    \A site \in MetricSites(payload) :
      LET metric == MetricAt(payload, site)
          points == HistogramPointsOf(metric)
          first == Populated(metric) \cap {"gauge", "sum"} = {}
      IN \A i \in DOMAIN points :
           NumericBounds(points[i]) =>
             IF first THEN BoundsReportedOnce(site, points[i], i)
             ELSE \A k \in 0..Len(points[i].o.explicitBounds.a) : BoundsErrors(site, i, k) = {}
C11_Witness ==
  /\ Returned_ /\ result.payloadType = "metrics"
  /\ \E site \in MetricSites(payload) :
       LET metric == MetricAt(payload, site)
           points == HistogramPointsOf(metric)
       IN /\ Populated(metric) = {"histogram"} /\ Len(points) = 1
          /\ NumericBounds(points[1])
          /\ BoundsViolations(points[1]) = {1, 2}
          /\ Cardinality(BoundsErrors(site, 1, 1)) = 1 /\ BoundsErrors(site, 1, 2) = {}

\* the variant whose data points the checker looks at: the first populated
\* one in the order gauge, sum, histogram, exponentialHistogram, summary
SelectedVariant(metric) ==
  CASE "gauge" \in Populated(metric) -> "gauge"
    [] "sum" \in Populated(metric) -> "sum"
    [] "histogram" \in Populated(metric) -> "histogram"
    [] "exponentialHistogram" \in Populated(metric) -> "exponentialHistogram"
    [] OTHER -> "summary"
SelectedPoints(metric) ==
  IF Populated(metric) = {} THEN <<>>
  ELSE Elems(Get(metric, SelectedVariant(metric)), "dataPoints")
PointPath(site, metric, i) ==
  MetricPath(site) \o "/" \o SelectedVariant(metric) \o "/dataPoints/" \o ToString(i - 1)
\* C12: for every data point of the selected variant of a metric, whichever
\* of the five it is, with startTimeUnixNano and timeUnixNano both present
\* and both decimal forms of unsigned 64-bit integers, the result holds a
\* semantic error at .../timeUnixNano (one, not several) exactly when
\* time < startTime.
C12_TimeBeforeStart ==
  (Returned_ /\ result.payloadType = "metrics") =>
    \A site \in MetricSites(payload) :
      LET metric == MetricAt(payload, site)
          points == SelectedPoints(metric)
      IN \A i \in DOMAIN points :
           LET start == Get(points[i], "startTimeUnixNano")
               time == Get(points[i], "timeUnixNano")
           IN (start # Undef /\ time # Undef /\ IsUint64(start) /\ IsUint64(time)) =>
                Cardinality(SemanticAt(PointPath(site, metric, i) \o "/timeUnixNano"))
                  = ZeroOne(DigitsLess(DecimalDigits(time), DecimalDigits(start)))
\* every variant has been validated with a data point whose time precedes
\* its start time; here it is the summary's turn
C12_Witness ==
  /\ Returned_ /\ result.payloadType = "metrics"
  /\ \E site \in MetricSites(payload) :
       LET metric == MetricAt(payload, site)
           points == SelectedPoints(metric)
       IN /\ Populated(metric) = {"summary"} /\ Len(points) = 1
          /\ Get(points[1], "startTimeUnixNano") = Dec(200)
          /\ Get(points[1], "timeUnixNano") = Num(150)
          /\ Cardinality(SemanticAt(PointPath(site, metric, 1) \o "/timeUnixNano")) = 1

LogSites(p) == Sites(p, "resourceLogs", "scopeLogs", "logRecords")
LogAt(p, site) == RecordAt(p, "resourceLogs", "scopeLogs", "logRecords", site)
LogPath(site) == SitePath("resourceLogs", "scopeLogs", "logRecords", site)
\* the band names: UNSPECIFIED for 0, then one name for each four numbers
C13_Bands ==
  <<<<"T", "R", "A", "C", "E">>, <<"D", "E", "B", "U", "G">>, <<"I", "N", "F", "O">>,
    <<"W", "A", "R", "N">>, <<"E", "R", "R", "O", "R">>, <<"F", "A", "T", "A", "L">>>>
C13_Band(n) ==
  IF n = 0 THEN <<"U", "N", "S", "P", "E", "C", "I", "F", "I", "E", "D">>
  ELSE C13_Bands[(n + 3) \div 4]
\* the character c is the capital letter C or its small letter
C13_SameLetter(c, C) ==
  c = C \/ \E k \in DOMAIN UpperChars : UpperChars[k] = C /\ LowerChars[k] = c
C13_StartsWithBand(text, n) ==
  /\ Len(text) >= Len(C13_Band(n))
  /\ \A k \in DOMAIN C13_Band(n) : C13_SameLetter(text[k], C13_Band(n)[k])
\* C13: for every log record with an integer severityNumber n in 0 .. 24
\* and a non-empty string severityText the result holds a warning at
\* .../severityText exactly when the text, upper-cased, does not start with
\* the band name of n (0 UNSPECIFIED, 1-4 TRACE, 5-8 DEBUG, 9-12 INFO, 13-16
\* WARN, 17-20 ERROR, 21-24 FATAL), and never an error at that path; a
\* variant such as INFO2 for n in 9 .. 12 has no warning.
C13_SeverityTextWarning ==
  (Returned_ /\ result.payloadType = "logs") =>
    \A site \in LogSites(payload) :
      LET log == LogAt(payload, site)
          n == Get(log, "severityNumber")
          text == Get(log, "severityText")
      IN (n.t = "num" /\ ~n.frac /\ n.n \in 0..24 /\ text.t = "str" /\ text.s # <<>>) =>
           /\ Cardinality(At(ResultWarnings, LogPath(site) \o "/severityText"))
                = ZeroOne(~C13_StartsWithBand(text.s, n.n))
           /\ At(result.errors, LogPath(site) \o "/severityText") = {}
C13_Witness ==
  /\ Returned_ /\ result.payloadType = "logs"
  /\ \E site \in LogSites(payload) :
       LET log == LogAt(payload, site)
       IN /\ Get(log, "severityNumber") = Num(12)
          /\ Get(log, "severityText") = Str(<<"i", "n", "f", "o", "2">>)
          /\ At(ResultWarnings, LogPath(site) \o "/severityText") = {}
          /\ result.valid

\* the exemplars of a data point
ExemplarsOf(dp) == Elems(dp, "exemplars")
ExemplarPath(pointPath, j) == pointPath \o "/exemplars/" \o ToString(j - 1)
\* what C14 asks of exemplar ex, reported under path
ZeroExemplarWarned(ex, path) ==
  /\ Cardinality(At(ResultWarnings, path \o "/traceId")) = ZeroOne(AllZero(ex, "traceId", 32))
  /\ Cardinality(At(ResultWarnings, path \o "/spanId")) = ZeroOne(AllZero(ex, "spanId", 16))
  /\ AllZero(ex, "traceId", 32) => At(result.errors, path \o "/traceId") = {}
  /\ AllZero(ex, "spanId", 16) => At(result.errors, path \o "/spanId") = {}
\* v is an object with exactly the field k, which holds an array
OnlyArray(v, k) == v.t = "obj" /\ DOMAIN v.o = {k} /\ v.o[k].t = "arr"
IsHex(v, n) ==
  /\ v.t = "str" /\ Len(v.s) = n
  /\ \A k \in DOMAIN v.s : HexVal(v.s[k]) \in 0..15
\* a metrics document that holds nothing but single-variant metrics whose
\* data points hold nothing but exemplars with well-formed identifiers
OnlyExemplarIds(p) ==
  /\ OnlyArray(p, "resourceMetrics")
  /\ \A r \in DOMAIN p.o.resourceMetrics.a :
       LET rm == p.o.resourceMetrics.a[r]
       IN /\ OnlyArray(rm, "scopeMetrics")
          /\ \A sc \in DOMAIN rm.o.scopeMetrics.a : OnlyArray(rm.o.scopeMetrics.a[sc], "metrics")
  /\ \A site \in MetricSites(p) :
       LET metric == MetricAt(p, site)
       IN /\ metric.t = "obj" /\ Cardinality(DOMAIN metric.o) = 1
          /\ Cardinality(Populated(metric)) = 1
          /\ OnlyArray(metric.o[SelectedVariant(metric)], "dataPoints")
          /\ \A i \in DOMAIN SelectedPoints(metric) :
               LET dp == SelectedPoints(metric)[i]
               IN /\ OnlyArray(dp, "exemplars")
                  /\ \A j \in DOMAIN dp.o.exemplars.a :
                       LET ex == dp.o.exemplars.a[j]
                       IN /\ ex.t = "obj" /\ DOMAIN ex.o \subseteq {"traceId", "spanId"}
                          /\ "traceId" \in DOMAIN ex.o => IsHex(ex.o.traceId, 32)
                          /\ "spanId" \in DOMAIN ex.o => IsHex(ex.o.spanId, 16)
\* C14 as stated: for every exemplar of every data point of a metric an
\* all-zero traceId or spanId has a warning at .../exemplars/i/traceId or
\* .../exemplars/i/spanId, and no error there.
C14_EveryExemplar ==
  (Returned_ /\ result.payloadType = "metrics") =>
    \A site \in MetricSites(payload) :
      \A dt \in Populated(MetricAt(payload, site)) :
        LET points == Elems(Get(MetricAt(payload, site), dt), "dataPoints")
        IN \A i \in DOMAIN points :
             \A j \in DOMAIN ExemplarsOf(points[i]) :
               (AllZero(ExemplarsOf(points[i])[j], "traceId", 32)
                  \/ AllZero(ExemplarsOf(points[i])[j], "spanId", 16)) =>
                 ZeroExemplarWarned(ExemplarsOf(points[i])[j],
                   ExemplarPath(MetricPath(site) \o "/" \o dt \o "/dataPoints/"
                                  \o ToString(i - 1), j))
\* C14: for every exemplar of a data point of the selected variant of a
\* metric the result holds exactly one warning at .../exemplars/i/traceId
\* when its traceId is 32 characters '0' and exactly one at
\* .../exemplars/i/spanId when its spanId is 16 characters '0', none
\* otherwise, and no error at the path of an all-zero identifier; a document
\* with no other issue is valid.
C14_ZeroExemplarWarns ==
  (Returned_ /\ result.payloadType = "metrics") =>
    \A site \in MetricSites(payload) :
      LET metric == MetricAt(payload, site)
          points == SelectedPoints(metric)
      IN /\ \A i \in DOMAIN points :
              \A j \in DOMAIN ExemplarsOf(points[i]) :
                ZeroExemplarWarned(ExemplarsOf(points[i])[j],
                                   ExemplarPath(PointPath(site, metric, i), j))
         /\ OnlyExemplarIds(payload) => result.valid
C14_Witness ==
  /\ Returned_ /\ result.payloadType = "metrics" /\ result.valid /\ OnlyExemplarIds(payload)
  /\ \E site \in MetricSites(payload) :
       LET metric == MetricAt(payload, site)
           points == SelectedPoints(metric)
       IN /\ Len(points) = 1 /\ Len(ExemplarsOf(points[1])) = 2
          /\ AllZero(ExemplarsOf(points[1])[1], "traceId", 32)
          /\ ~AllZero(ExemplarsOf(points[1])[1], "spanId", 16)
          /\ AllZero(ExemplarsOf(points[1])[2], "spanId", 16)
          /\ Len(ResultWarnings) = 2

\* the sum of a metric declares isMonotonic = true and aggregationTemporality = 1
MonotonicDelta(metric) ==
  /\ Get(Get(metric, "sum"), "isMonotonic") = [t |-> "bool", b |-> TRUE]
  /\ Get(Get(metric, "sum"), "aggregationTemporality") = [t |-> "num", n |-> 1, frac |-> FALSE]
SumWarnings(site) == At(ResultWarnings, MetricPath(site) \o "/sum")
\* C15 as stated: for every metric with a sum the result holds a warning at
\* .../sum exactly when the sum declares isMonotonic = true together with
\* aggregationTemporality = 1, and no error at that path.
C15_EveryMonotonicDeltaSum ==
  (Returned_ /\ result.payloadType = "metrics") =>
    \A site \in MetricSites(payload) :
      LET metric == MetricAt(payload, site)
      IN "sum" \in Populated(metric) =>
           /\ Cardinality(SumWarnings(site)) = ZeroOne(MonotonicDelta(metric))
           /\ MonotonicDelta(metric) => At(result.errors, MetricPath(site) \o "/sum") = {}
\* C15: for every metric whose selected variant is sum (no gauge populated
\* before it) the result holds exactly one warning at .../sum when the sum
\* declares isMonotonic = true together with aggregationTemporality = 1, and
\* no error at that path; for every other combination of the two fields,
\* and for a sum that stands behind a populated gauge, there is no such
\* warning.
C15_MonotonicDeltaWarns ==
  (Returned_ /\ result.payloadType = "metrics") =>
    \A site \in MetricSites(payload) :
      LET metric == MetricAt(payload, site)
      IN /\ Cardinality(SumWarnings(site))
              = ZeroOne(/\ Populated(metric) # {} /\ SelectedVariant(metric) = "sum"
                        /\ MonotonicDelta(metric))
         /\ MonotonicDelta(metric) => At(result.errors, MetricPath(site) \o "/sum") = {}
C15_Witness ==
  /\ Returned_ /\ result.payloadType = "metrics" /\ result.valid
  /\ \E site \in MetricSites(payload) :
       /\ Populated(MetricAt(payload, site)) = {"sum"}
       /\ MonotonicDelta(MetricAt(payload, site))
       /\ Cardinality(SumWarnings(site)) = 1

\* the value a record holds at the end of the steps, undefined when there
\* is none
RECURSIVE Dig(_, _)
Dig(v, steps) ==
  IF steps = <<>> THEN v
  ELSE IF v.t = "arr"
    THEN (IF steps[1] = "0" /\ Len(v.a) >= 1 THEN Dig(v.a[1], Tail(steps)) ELSE [t |-> "undef"])
  ELSE IF v.t = "obj" /\ steps[1] \in DOMAIN v.o THEN Dig(v.o[steps[1]], Tail(steps))
  ELSE [t |-> "undef"]
RECURSIVE StepsPath(_)
StepsPath(steps) == IF steps = <<>> THEN "" ELSE "/" \o steps[1] \o StepsPath(Tail(steps))
FieldValue(f) == Dig(payload, RecordSteps(f[1]) \o f[2])
FieldPath(f) == StepsPath(RecordSteps(f[1]) \o f[2])
\* the errors of the structural layer at a path
StructuralAt(path) == {i \in At(result.errors, path) : result.errors[i].keyword # "semantic"}
TimestampFields ==
  {f \in Int64Fields :
     /\ f[1] \in {"resourceSpans", "resourceLogs"}
     /\ f[2] \in {<<"startTimeUnixNano">>, <<"endTimeUnixNano">>, <<"events", "0", "timeUnixNano">>,
                   <<"timeUnixNano">>, <<"observedTimeUnixNano">>}}
\* C17: in traces and logs documents a timestamp field (startTimeUnixNano and
\* endTimeUnixNano of a span, timeUnixNano of an event, timeUnixNano and
\* observedTimeUnixNano of a log record) is structurally valid only when it
\* is a string: a bare number has a structural error at the field's path.
C17_TimestampsAreStrings ==
  Returned_ =>
    \A f \in TimestampFields :
      FieldValue(f).t # "undef" =>
        /\ StructuralAt(FieldPath(f)) = {} => FieldValue(f).t = "str"
        /\ FieldValue(f).t = "num" => StructuralAt(FieldPath(f)) # {}


\* the value is an integer of 0 .. hi
InRange(v, hi) == v.t = "num" /\ ~v.frac /\ v.n \in 0..hi

\* C18: for every enum field (span kind 0 .. 5, status code 0 .. 2,
\* severityNumber 0 .. 24, aggregationTemporality 0 .. 2) that is present in
\* the first record of a returned call, there is no structural error at the
\* field's path exactly when the value is an integer of the range; any other
\* value (an enum name, a non-integer number, an integer outside the range)
\* yields a structural error at the path and an invalid result.
C18_EnumRange ==
  Returned_ =>
    \A f \in EnumFields :
      FieldValue(f).t # "undef" =>
        /\ StructuralAt(FieldPath(f)) = {} <=> InRange(FieldValue(f), f[3])
        /\ ~InRange(FieldValue(f), f[3]) => ~result.valid
C18_Witness ==
  /\ Returned_
  /\ FieldValue(<<"resourceSpans", <<"kind">>, 5>>) = Str(<<"S", "E", "R", "V", "E", "R">>)
  /\ StructuralAt("/resourceSpans/0/scopeSpans/0/spans/0/kind") # {}
  /\ ~result.valid

\* C19: for every identifier field (traceId, spanId, parentSpanId of the first
\* span, its first link, the first log record and the first exemplar) of a
\* returned call: an absent field has no structural error at its path, and a
\* present value has no structural error at its path exactly when it is a
\* string of 32 (trace) or 16 (span) hex characters of either case; so an
\* all-zero identifier of the right length has no structural error.
C19_IdentifierPattern ==
  Returned_ =>
    \A f \in IdFields :
      /\ (StructuralAt(FieldPath(f)) = {})
           <=> (FieldValue(f).t = "undef" \/ IsHex(FieldValue(f), f[3]))
      /\ FieldValue(f) = Str(Rep("0", f[3])) => StructuralAt(FieldPath(f)) = {}
C19_Witness ==
  /\ Returned_
  /\ FieldValue(<<"resourceSpans", <<"spanId">>, 16>>) = ZeroSpanId
  /\ StructuralAt("/resourceSpans/0/scopeSpans/0/spans/0/spanId") = {}
  /\ At(result.errors, "/resourceSpans/0/scopeSpans/0/spans/0/spanId") # {}

\* C20: when the document of a call is a traces, logs or metrics document
\* with one more field, of a name the schema does not declare, at one of its
\* levels (top level, resource container, resource, scope container, scope,
\* record, data point, attribute, AnyValue), the call comes to what a call
\* with the document without that field comes to: the same valid, errors
\* (so no more structural errors) and warnings.
C20_UnknownFieldsTolerated ==
  \A pair \in UnknownFieldPairs :
    payload = pair[2] /\ result.status # "idle" =>
      result = validateOTLPPayload(pair[1], DateNow(clock))

\* the warning of the clock skew check
ClockSkew(w) ==
  w.message = <<"startTimeUnixNano is significantly in the future, possible clock skew">>
\* the warnings of a result that do not depend on the clock
SteadyWarnings(r) ==
  IF r.warnings = Undef THEN <<>> ELSE SelectSeq(r.warnings.a, LAMBDA w : ~ClockSkew(w))
\* the document of the call is the document of the call the caller kept
Revalidated == result.status # "idle" /\ prior.result.status # "idle" /\ prior.payload = payload

BodyField(k) == Get(response.body, k)
\* the name of a signal kind as a string of the response
KindName(kind) ==
  CASE kind = "traces" -> Str(<<"t", "r", "a", "c", "e", "s">>)
    [] kind = "logs" -> Str(<<"l", "o", "g", "s">>)
    [] kind = "metrics" -> Str(<<"m", "e", "t", "r", "i", "c", "s">>)
    [] OTHER -> Null

\* C22: when the POST handler handed the decoded body to validateOTLPPayload
\* and the call returned, the response is 200 with success = true and the
\* result's payloadType exactly when result.valid, and otherwise 400 with
\* success = false, the result's errors and the result's payloadType, which
\* is null exactly when no type was detected.
C22_ResponseMirrorsResult ==
  Returned_ =>
    /\ response.status = IF result.valid THEN 200 ELSE 400
    /\ BodyField("success") = Bool(result.valid)
    /\ BodyField("payloadType") = KindName(result.payloadType)
    /\ BodyField("payloadType") = Null <=> ArrayFields(payload) = {}
    /\ result.valid => BodyField("payloadType") # Null
    /\ ~result.valid => BodyField("errors") = Arr(result.errors)
C22_Witness ==
  /\ Returned_ /\ ~result.valid /\ result.payloadType = "traces"
  /\ response.status = 400 /\ BodyField("success") = Bool(FALSE)
  /\ BodyField("payloadType") = KindName("traces")
  /\ BodyField("errors").a # <<>>

\* the handler has served a request whose body it could read
Answered == response # NoResponse /\ ~request.broken
\* the body is empty or white space only; the body is a JSON text
Blank(text) ==
  text.value = Undef
    /\ \A c \in Range(text.lead \o text.trail) : c \in {" ", "\t", "\n", "\r", "\f"}
Parses(text) ==
  text.value # Undef /\ \A c \in Range(text.lead \o text.trail) : c \in {" ", "\t", "\n", "\r"}
\* the Content-Type header names a substring
Names(req, sub) == req.contentType # Null /\ Includes(req.contentType.s, sub)
JsonType(req) == Names(req, ApplicationJson)
ProtobufType(req) ==
  ~JsonType(req) /\ (Names(req, ApplicationXProtobuf) \/ Names(req, ApplicationProtobuf))
\* the response turns the request down with one error of the keyword and
\* validateOTLPPayload was not called
TurnedDown(status, keyword) ==
  /\ response.status = status
  /\ BodyField("success") = Bool(FALSE)
  /\ BodyField("payloadType") = Null
  /\ BodyField("errors").t = "arr" /\ Len(BodyField("errors").a) = 1
  /\ BodyField("errors").a[1].keyword = keyword
  /\ BodyField("errors").a[1].path = ""
  /\ result = NotCalled /\ calls = <<>>

\* C23 as stated: every request whose body is empty or white space only is
\* turned down with 400 and one error 'required', every request whose body
\* is not a JSON text with 400 and one error 'format', whatever the
\* Content-Type, and validateOTLPPayload is not called.
C23_BadBodyIs400 ==
  Answered =>
    /\ Blank(request.body) => TurnedDown(400, "required")
    /\ (~Blank(request.body) /\ ~Parses(request.body)) => TurnedDown(400, "format")
\* C23: a request with a JSON Content-Type is turned down with 400 and one
\* error, 'required' when its body is empty or white space only and 'format'
\* when the body is otherwise not a JSON text; a request with a protobuf
\* Content-Type is turned down with 400 and 'required' when its body has no
\* bytes and with 415 and 'format' when its body is not a JSON text; in
\* each case payloadType is null and validateOTLPPayload is not called.
C23_BadBodyByContentType ==
  Answered =>
    /\ (JsonType(request) /\ Blank(request.body)) => TurnedDown(400, "required")
    /\ (JsonType(request) /\ ~Blank(request.body) /\ ~Parses(request.body))
         => TurnedDown(400, "format")
    /\ (ProtobufType(request) /\ request.body = Text(<<>>, Undef, <<>>))
         => TurnedDown(400, "required")
    /\ (ProtobufType(request) /\ request.body # Text(<<>>, Undef, <<>>)
          /\ ~Parses(request.body))
         => TurnedDown(415, "format")
C23_Witness ==
  /\ Answered /\ JsonType(request)
  /\ request.body = Text(<<"\f">>, EmptyObj, <<>>)
  /\ TurnedDown(400, "format")

\* C24 as stated: every request whose Content-Type is not a JSON one (a
\* missing header, another media type, a protobuf type) is answered with 415
\* and validateOTLPPayload is not called.
C24_NotJsonIs415 ==
  (Answered /\ ~JsonType(request)) =>
    response.status = 415 /\ result = NotCalled /\ calls = <<>>
\* C24: a request whose Content-Type names neither application/json nor a
\* protobuf type (a missing header included) is answered with 415 and one
\* error 'contentType', and validateOTLPPayload is not called; under a
\* protobuf Content-Type a body that is not a JSON text is answered with 415
\* and one error 'format' (400 and 'required' when it has no bytes), again
\* without a call, and a body that is a JSON text is decoded and handed to
\* validateOTLPPayload.
C24_UnsupportedIs415 ==
  (Answered /\ ~JsonType(request)) =>
    /\ ~ProtobufType(request) => TurnedDown(415, "contentType")
    /\ (ProtobufType(request) /\ ~Parses(request.body)) =>
          IF request.body = Text(<<>>, Undef, <<>>) THEN TurnedDown(400, "required")
          ELSE TurnedDown(415, "format")
    /\ (ProtobufType(request) /\ Parses(request.body)) =>
          /\ payload = request.body.value
          /\ calls # <<>> /\ result.status \in {"returned", "threw"}
          /\ response.status # 415
C24_Witness ==
  /\ Answered /\ ProtobufType(request)
  /\ request.body = Text(<<>>, Undef, <<"}">>)
  /\ TurnedDown(415, "format")

\* something threw while the handler served the request: reading the body
\* failed (the body is read under the JSON and the protobuf Content-Types),
\* or validateOTLPPayload threw
SomethingThrew ==
  \/ request.broken /\ (JsonType(request) \/ ProtobufType(request))
  \/ result.status = "threw"
\* C25: every request the handler serves gets a response (no exception
\* escapes); when reading the body fails or validateOTLPPayload throws, the
\* response is 500 with success = false, payloadType null and exactly one
\* error, of keyword 'internal'; no other request is answered with 500 (a
\* body that JSON.parse rejects is answered with 400 or 415).
C25_ThrowIs500 ==
  response # NoResponse =>
    /\ response.status \in {200, 400, 415, 500}
    /\ response.status = 500 <=> SomethingThrew
    /\ SomethingThrew =>
         /\ BodyField("success") = Bool(FALSE)
         /\ BodyField("payloadType") = Null
         /\ BodyField("errors").t = "arr" /\ Len(BodyField("errors").a) = 1
         /\ BodyField("errors").a[1].keyword = "internal"
         /\ BodyField("warnings") = Undef
C25_Witness ==
  /\ response.status = 500
  /\ result.status = "threw"
  /\ payload = Obj([resourceSpans |-> Arr(<<Null>>)])
  /\ BodyField("errors").a[1].keyword = "internal"

\* C30: a response carries warnings only when it is a 400 response, and then
\* the warnings of the result; a document with no errors and some warnings
\* is answered 200 with a body of exactly success, payloadType and message;
\* the result of a call that returned has no warnings field or a non-empty
\* list of warnings.
C30_WarningsOnlyOnFailure ==
  response # NoResponse =>
    /\ BodyField("warnings") # Undef =>
         response.status = 400 /\ BodyField("warnings") = result.warnings
    /\ (Returned_ /\ result.errors = <<>> /\ result.warnings # Undef) =>
         /\ response.status = 200
         /\ DOMAIN response.body.o = {"success", "payloadType", "message"}
    /\ Returned_ =>
         result.warnings = Undef \/ (result.warnings.t = "arr" /\ result.warnings.a # <<>>)
C30_Witness ==
  /\ Returned_ /\ result.errors = <<>>
  /\ result.warnings # Undef /\ Len(result.warnings.a) >= 1
  /\ response.status = 200
  /\ DOMAIN response.body.o = {"success", "payloadType", "message"}

\* a timestamp that BigInt() rejects
Garbled(v) == v \in GarbledTimes
\* C26: a timestamp that cannot be parsed as an integer does not make the
\* call throw and gets no semantic error or warning of its own, and only
\* the comparisons that use it are skipped: in the traces checker the
\* identifier and link checks, the clock skew comparison of a parseable
\* start time and the checks of the next span still report; in the logs and
\* metrics checkers the other checks of the record and of the next record
\* still report.
C26_OnlyItsComparisonSkipped ==
  /\ payload \in GarbledDocs => Returned_
  /\ (Returned_ /\ result.payloadType = "traces") =>
       \A site \in SpanSites(payload) :
         LET span == SpanAt(payload, site)
             start == Get(span, "startTimeUnixNano")
             end == Get(span, "endTimeUnixNano")
             limit == BigAdd(NowNano(DateNow(clock)), GraceNanos).mag
         IN (span.t = "obj" /\ (Garbled(start) \/ Garbled(end))) =>
              /\ SemanticAt(SpanPath(site) \o "/endTimeUnixNano") = {}
              /\ Garbled(start) => At(ResultWarnings, SpanPath(site) \o "/startTimeUnixNano") = {}
              /\ SemanticAt(SpanPath(site) \o "/spanId") # {} <=> Get(span, "spanId") = ZeroSpanId
              /\ (IsUint64(start) /\ DigitsLess(limit, DecimalDigits(start))) =>
                   At(ResultWarnings, SpanPath(site) \o "/startTimeUnixNano") # {}
  /\ (Returned_ /\ payload \in GarbledDocs) =>
       /\ result.payloadType = "traces" =>
            /\ SemanticAt("/resourceSpans/0/scopeSpans/0/spans/0/links/0/traceId") # {}
            /\ SemanticAt("/resourceSpans/0/scopeSpans/0/spans/1/endTimeUnixNano") # {}
            /\ At(ResultWarnings, "/resourceSpans/0/scopeSpans/0/spans/0/events/0/timeUnixNano") = {}
       /\ result.payloadType = "logs" =>
            /\ SemanticAt("/resourceLogs/0/scopeLogs/0/logRecords/0/traceId") # {}
            /\ At(ResultWarnings, "/resourceLogs/0/scopeLogs/0/logRecords/0/severityText") # {}
            /\ (Garbled(FieldValue(<<"resourceLogs", <<"timeUnixNano">>>>))
                  \/ Garbled(FieldValue(<<"resourceLogs", <<"observedTimeUnixNano">>>>))) =>
                 At(ResultWarnings, "/resourceLogs/0/scopeLogs/0/logRecords/0/observedTimeUnixNano") = {}
            /\ At(ResultWarnings, "/resourceLogs/0/scopeLogs/0/logRecords/1/observedTimeUnixNano") # {}
       /\ result.payloadType = "metrics" =>
            /\ (Garbled(FieldValue(<<"resourceMetrics", <<"histogram", "dataPoints", "0", "startTimeUnixNano">>>>))
                  \/ Garbled(FieldValue(<<"resourceMetrics", <<"histogram", "dataPoints", "0", "timeUnixNano">>>>))) =>
                 SemanticAt("/resourceMetrics/0/scopeMetrics/0/metrics/0/histogram/dataPoints/0/timeUnixNano") = {}
            /\ SemanticAt("/resourceMetrics/0/scopeMetrics/0/metrics/0/histogram/dataPoints/0/explicitBounds/1") # {}
            /\ At(ResultWarnings, "/resourceMetrics/0/scopeMetrics/0/metrics/0/histogram/dataPoints/0/exemplars/0/spanId") # {}
            /\ SemanticAt("/resourceMetrics/0/scopeMetrics/0/metrics/0/histogram/dataPoints/1/timeUnixNano") # {}

\* the paths below a record at which a semantic checker can report, with the
\* indices of the elements the record holds
IndexPaths(v, k, fields) ==
  {"/" \o k \o "/" \o ToString(i - 1) \o f : i \in DOMAIN Elems(v, k), f \in fields}
PointPaths(dp) ==
  {"/timeUnixNano", "/bucketCounts"}
    \cup IndexPaths(dp, "explicitBounds", {""})
    \cup IndexPaths(dp, "exemplars", {"/traceId", "/spanId"})
VariantPaths(metric, dt) ==
  UNION {{"/" \o dt \o "/dataPoints/" \o ToString(i - 1) \o f :
            f \in PointPaths(Elems(Get(metric, dt), "dataPoints")[i])} :
           i \in DOMAIN Elems(Get(metric, dt), "dataPoints")}
RecordPaths(kind, record) ==
  CASE kind = "traces" ->
         {"/traceId", "/spanId", "/startTimeUnixNano", "/endTimeUnixNano"}
           \cup IndexPaths(record, "events", {"/timeUnixNano"})
           \cup IndexPaths(record, "links", {"/traceId", "/spanId"})
    [] kind = "logs" -> {"", "/traceId", "/spanId", "/severityText", "/observedTimeUnixNano"}
    [] OTHER ->
         {"", "/sum"}
           \cup UNION {VariantPaths(record, dt) :
                         dt \in {"gauge", "sum", "histogram", "exponentialHistogram", "summary",
                                  "undefined"}}
KindSites(kind) ==
  CASE kind = "traces" -> SpanSites(payload)
    [] kind = "logs" -> LogSites(payload)
    [] OTHER -> MetricSites(payload)
KindPath(kind, site) ==
  CASE kind = "traces" -> SpanPath(site)
    [] kind = "logs" -> LogPath(site)
    [] OTHER -> MetricPath(site)
KindRecord(kind, site) ==
  CASE kind = "traces" -> SpanAt(payload, site)
    [] kind = "logs" -> LogAt(payload, site)
    [] OTHER -> MetricAt(payload, site)
\* the records of the document an issue at the path is about
SitesOf(kind, path) ==
  {site \in KindSites(kind) :
     path \in {KindPath(kind, site) \o f : f \in RecordPaths(kind, KindRecord(kind, site))}}
SiteLess(a, b) ==
  \/ a[1] < b[1]
  \/ a[1] = b[1] /\ a[2] < b[2]
  \/ a[1] = b[1] /\ a[2] = b[2] /\ a[3] < b[3]
\* every issue of the list is about a record of the document, and no issue
\* stands behind an issue about a later record
Traversal(kind, list) ==
  /\ \A i \in DOMAIN list : SitesOf(kind, list[i].path) # {}
  /\ \A i, j \in DOMAIN list :
       i < j => \A a \in SitesOf(kind, list[i].path), b \in SitesOf(kind, list[j].path) :
                  ~SiteLess(b, a)
SemanticErrors == SelectSeq(result.errors, LAMBDA e : e.keyword = "semantic")

\* C27: in the result of a call that returned, the semantic errors, and the
\* warnings, stand in traversal order: each is reported at a path of a
\* record of the document, with indices of elements the record holds, and
\* none stands behind one about a record with a lexicographically larger
\* index triple (resource, scope, record).
C27_TraversalOrder ==
  (Returned_ /\ result.payloadType # "null") =>
    /\ Traversal(result.payloadType, SemanticErrors)
    /\ Traversal(result.payloadType, ResultWarnings)
C27_Witness ==
  /\ Returned_ /\ result.payloadType = "traces"
  /\ Len(SemanticErrors) = 4
  /\ SitesOf("traces", SemanticErrors[1].path) = {<<1, 1, 1>>}
  /\ SitesOf("traces", SemanticErrors[2].path) = {<<1, 2, 1>>}
  /\ SitesOf("traces", SemanticErrors[3].path) = {<<2, 1, 1>>}
  /\ SitesOf("traces", SemanticErrors[4].path) = {<<2, 2, 1>>}

\* the paths, below a metric, at which the histogram checks report
HistogramPaths(metric, dt) ==
  {p \in VariantPaths(metric, dt) :
     \E i \in DOMAIN Elems(Get(metric, dt), "dataPoints") :
       LET at == "/" \o dt \o "/dataPoints/" \o ToString(i - 1)
       IN p = at \o "/bucketCounts"
            \/ p \in {at \o q : q \in IndexPaths(Elems(Get(metric, dt), "dataPoints")[i],
                                                  "explicitBounds", {""})}}
\* nothing semantic, error or warning, is reported at any of the paths
Unreported(site, paths) ==
  \A p \in paths :
    /\ SemanticAt(MetricPath(site) \o p) = {}
    /\ At(ResultWarnings, MetricPath(site) \o p) = {}
\* C29: for every metric with more than one of gauge, sum, histogram,
\* exponentialHistogram, summary populated, the result holds no semantic
\* error and no warning at any data-point path (timeUnixNano, bucketCounts,
\* explicitBounds, exemplar ids) of a populated variant other than the first
\* one in that order; no bucketCounts or explicitBounds error at the data
\* points of the first one unless it is histogram; and no monotonic/DELTA
\* warning at .../sum unless it is sum, in which case there is exactly one
\* when the sum is monotonic with DELTA temporality.
C29_FirstPopulatedVariantOnly ==
  (Returned_ /\ result.payloadType = "metrics") =>
    \A site \in MetricSites(payload) :
      LET metric == MetricAt(payload, site)
          others == Populated(metric) \ {SelectedVariant(metric)}
      IN Cardinality(Populated(metric)) > 1 =>
           /\ \A dt \in others : Unreported(site, VariantPaths(metric, dt))
           /\ SelectedVariant(metric) # "histogram" =>
                Unreported(site, HistogramPaths(metric, SelectedVariant(metric)))
           /\ Cardinality(SumWarnings(site))
                = ZeroOne(SelectedVariant(metric) = "sum" /\ MonotonicDelta(metric))
C29_Witness ==
  /\ Returned_ /\ result.payloadType = "metrics"
  /\ \E site \in MetricSites(payload) :
       LET metric == MetricAt(payload, site)
       IN /\ Populated(metric) = {"gauge", "histogram"}
          /\ VariantPaths(metric, "gauge") # {}
          /\ HistogramPaths(metric, "histogram") # {}
          /\ Cardinality(SemanticAt(MetricPath(site) \o "/gauge/dataPoints/0/timeUnixNano")) = 1
          /\ Cardinality(At(ResultWarnings,
                            MetricPath(site) \o "/gauge/dataPoints/0/exemplars/0/traceId")) = 1
          /\ Unreported(site, VariantPaths(metric, "histogram"))

\* the location of a structural error of the result: its path, and for a
\* missing required property the path of that property
AjvLocation(e) ==
  LET ip == IF e.path = "/" THEN "" ELSE e.path
  IN IF e.keyword = "required" THEN ip \o "/" \o e.message[2] ELSE ip
AjvLocations ==
  {AjvLocation(result.errors[i]) :
     i \in {j \in DOMAIN result.errors : result.errors[j].keyword # "semantic"}}
ZodLocations ==
  {safeParse(result.payloadType, payload)[i].path :
     i \in DOMAIN safeParse(result.payloadType, payload)}
\* C28: for every traces or logs document the locations at which the
\* compiled JSON-Schema validator reports a structural error are exactly the
\* locations at which the Zod schema of that kind of document reports an
\* issue.
C28_SchemaSetsAgree ==
  (Returned_ /\ result.payloadType \in {"traces", "logs"}) => AjvLocations = ZodLocations
====
